---- MODULE Spec2Model ----
(***************************************************************************)
(* A model of the Deep Research pipeline: the planner's parsing and        *)
(* fallback, the searcher's bounded search-validate-refine loop, the       *)
(* critic's decision rule, the synthesizer's single improvement pass and   *)
(* the orchestrator's critique/gap-re-search cycle.                        *)
(*                                                                         *)
(* External collaborators (language model, arXiv, web search) are          *)
(* nondeterministic: every response they can give is drawn from a bounded  *)
(* set.  Text is abstracted to what the code inspects of it: a paper's     *)
(* abstract is its length, a title is empty or not.                        *)
(***************************************************************************)
EXTENDS Integers, Sequences, FiniteSets, TLC

\* Each component's call in progress: its inputs, its locals and a pc.  A
\* specification runs one component; the others stay Off.
VARIABLES search, planner, critic, synthesizer, pipeline, scorer, memory, twin

vars == <<search, planner, critic, synthesizer, pipeline, scorer, memory, twin>>

Off == [pc |-> "off"]

\* ------------------------------------------------------------------ bounds
\* Number of distinct arXiv ids the retrieval tool can return: 9 of them are
\* ids of papers with a title and an abstract.
NumIds == 11

\* -------------------------------------------------------------------- text
\* A text is the sequence of its words; the empty text is <<>>, and a
\* formatted text such as f"Recent developments in {query}" is a
\* concatenation.  The texts the model's collaborators produce:
TA == <<"A">>
TB == <<"B">>
TC == <<"C">>
TG == <<"gap", "G">>
TH == <<"gap", "H">>

\* --------------------------------------------------------- generic helpers
Range(s) == {s[i] : i \in DOMAIN s}

SeqsUpTo(S, n) == UNION {[1..k -> S] : k \in 0..n}

NoDuplicates(s) == \A i, j \in DOMAIN s : i # j => s[i] # s[j]

RECURSIVE SumSeq(_)
SumSeq(s) == IF s = <<>> THEN 0 ELSE Head(s) + SumSeq(Tail(s))

\* ------------------------------------------------------------ arXiv papers
PaperIds == 1..NumIds

\* tools/arxiv_tool.py Paper: the fields the pipeline reads.  An id fixes the
\* paper: id 1 has no title, id 2 an empty abstract, id 3 a 10-character
\* abstract, id 5 one of 20 characters, id 6 one of 21, every other id a
\* title and a 30-character abstract.
Paper(i) ==
    [arxiv_id |-> i,
     title    |-> IF i = 1 THEN "" ELSE "T",
     abstract |-> IF i = 2 THEN 0 ELSE IF i = 3 THEN 10
                  ELSE IF i = 5 THEN 20 ELSE IF i = 6 THEN 21 ELSE 30]


\* Line 63 asks arxiv.search for max_results=5 papers.
MaxResults == 5

\* What one arxiv.search call can return: nothing, a run of at most MaxResults
\* papers with consecutive ids, or such a run followed by its first paper
\* again (the same id twice in one batch).  Runs overlap, so a later batch can
\* bring papers an earlier one brought.
Run(a, k) == [j \in 1..k |-> Paper(a + j - 1)]

Runs(maxlen) ==
    {Run(ak[1], ak[2]) :
        ak \in {x \in PaperIds \X (1..maxlen) : x[1] + x[2] - 1 <= NumIds}}

Batches ==
    {<<>>} \cup Runs(MaxResults)
           \cup {Append(b, b[1]) : b \in Runs(MaxResults - 1)}

\* What one web_search.search call can do: raise, or return a list of urls.
WebResponses ==
    {[raised |-> TRUE, hits |-> <<>>]} \cup
    {[raised |-> FALSE, hits |-> h] :
        h \in {<<>>, <<"u1", "u2", "u1">>}}

\* The queries the rewriter can answer with.
RewriteQueries == {<<"r1">>, <<"r2">>}

\* ------------------------------------------------------------ ToolVerifier
\* Mutant of VerifyIssuesOfPapers: a single result is not an issue.
VerifyIssuesOfPapers_NoFewCheck(papers) ==
    LET n == Len(papers)
        per(p) == (IF p.abstract = 0 THEN <<"Missing abstract">> ELSE <<>>)
                  \o (IF p.title = "" THEN <<"Missing title">> ELSE <<>>)
        RECURSIVE all(_)
        all(k) == IF k > n THEN <<>> ELSE per(papers[k]) \o all(k + 1)
    IN  all(1)

\* Lines 45-52: the issues of a list of papers that is not empty.
VerifyIssuesOfPapers(papers) ==
    LET n == Len(papers)
        few == IF n < 2 THEN <<"Very few results">> ELSE <<>>
        per(p) == (IF p.abstract = 0 THEN <<"Missing abstract">> ELSE <<>>)
                  \o (IF p.title = "" THEN <<"Missing title">> ELSE <<>>)
        RECURSIVE all(_)
        all(k) == IF k > n THEN <<>> ELSE per(papers[k]) \o all(k + 1)
    IN  few \o all(1)

verify_search_results(papers) ==
    IF papers = <<>>
    THEN [tool |-> "arxiv_search", valid |-> FALSE,
          issues |-> <<"No papers returned from search">>]
    ELSE LET issues == VerifyIssuesOfPapers(papers)
         IN  [tool |-> "arxiv_search", valid |-> (Len(issues) = 0),
              issues |-> issues]

\* ------------------------------------------------------------- SearchAgent
\* One entry of the trace of what a component did: a call of a collaborator
\* in iteration arg (arxiv, web, verify, and rewrite and refine, the rewriter's
\* two operations) or a merge with the evidence count after it.
Call(op, arg) == [op |-> op, arg |-> arg]

CountCalls(calls, op) == Cardinality({k \in DOMAIN calls : calls[k].op = op})

\* agents/planner_agent.py SubQuestion.
SubQuestion(question, search_query, evidence_type) ==
    [question |-> question, search_query |-> search_query,
     evidence_type |-> evidence_type]

\* agents/planner_agent.py ResearchPlan.
ResearchPlan(main_query, sub_questions, approach_notes) ==
    [main_query |-> main_query, sub_questions |-> sub_questions,
     approach_notes |-> approach_notes]

\* agents/search_agent.py SearchResults, as constructed at line 55.
SearchResults(sub_question) ==
    [sub_question |-> sub_question, papers |-> <<>>, web_results |-> <<>>,
     iterations |-> 0, queries_used |-> <<>>]

\* Line 46: max_iterations defaults to 3, the largest value the pipeline uses.
DefaultMaxIterations == 3

\* Mutant of InRange: one iteration too many.
InRange_OffByOne(iteration, max_iterations) == iteration <= max_iterations

\* Line 58: the loop runs for iteration in range(max_iterations).
InRange(iteration, max_iterations) == iteration < max_iterations

\* The locals of search_for_subquestion before the first iteration (lines
\* 52-58); running says that the loop has not ended, calls is the trace of the
\* tool calls made so far.
SearchStart(sub_question, max_iterations) ==
    [results      |-> SearchResults(sub_question.question),
     seen_ids     |-> {},
     search_query |-> sub_question.search_query,
     iteration    |-> 0,
     running      |-> InRange(0, max_iterations),
     verification |-> <<>>,
     calls        |-> <<>>]

\* Lines 69-71: a hit is appended unless its url is already in web_results.
RECURSIVE MergeWebHits(_, _)
MergeWebHits(web_results, hits) ==
    IF hits = <<>> THEN web_results
    ELSE MergeWebHits(IF Head(hits) \in Range(web_results) THEN web_results
                      ELSE Append(web_results, Head(hits)),
                      Tail(hits))

\* Mutant of AddNewPapers: every paper of the batch is appended.
AddNewPapers_NoSeenCheck(list, seen_ids, papers) ==
    [papers |-> list \o papers,
     seen_ids |-> seen_ids \cup {papers[k].arxiv_id : k \in DOMAIN papers}]

\* Lines 88-92: a paper is appended unless its id is in seen_ids.
RECURSIVE AddNewPapers(_, _, _)
AddNewPapers(list, seen_ids, papers) ==
    IF papers = <<>> THEN [papers |-> list, seen_ids |-> seen_ids]
    ELSE LET pid == Head(papers).arxiv_id
         IN  IF pid \notin seen_ids
             THEN AddNewPapers(Append(list, Head(papers)),
                               seen_ids \cup {pid}, Tail(papers))
             ELSE AddNewPapers(list, seen_ids, Tail(papers))

\* Mutant of EnoughPapers: the loop never stops early.
EnoughPapers_Never(papers) == FALSE

\* Mutant of EnoughPapers: the stop needs more than 5 papers.
EnoughPapers_MoreThan5(papers) == Len(papers) > 5

\* Line 95: enough papers were collected.
EnoughPapers(papers) == Len(papers) >= 5

\* Mutant of IterationRemains: the rewriter is asked after every iteration.
IterationRemains_Always(iteration, max_iterations) == TRUE

\* Lines 80 and 99: a rewriter call is made only if another iteration remains.
IterationRemains(iteration, max_iterations) == iteration < max_iterations - 1

\* Mutant of PrimaryResults: a failed web search loses the papers.
PrimaryResults_LostWithWeb(resp) ==
    IF resp.web.raised THEN <<>> ELSE resp.papers

\* Line 63: papers is what arxiv.search returned, and nothing of the web
\* search; it is what lines 75 and 88 verify and merge.
PrimaryResults(resp) == resp.papers

\* Lines 59-103: the body of the loop, for one iteration that is in range.
\* resp holds what the tools answer in this iteration: resp.papers (arXiv),
\* resp.web (web search) and resp.rewrite (the rewriter, if it is asked).
search_iteration(st, max_iterations, resp) ==
    LET it       == st.iteration
        r0       == [st.results EXCEPT
                       !.iterations = @ + 1,
                       !.queries_used = Append(@, st.search_query)]
        r1       == IF resp.web.raised THEN r0
                    ELSE [r0 EXCEPT !.web_results = MergeWebHits(@, resp.web.hits)]
        papers   == PrimaryResults(resp)
        verification == verify_search_results(papers)
        c1       == st.calls \o <<Call("arxiv", it), Call("web", it),
                                  Call("verify", it)>>
        more     == IterationRemains(it, max_iterations)
        merged   == AddNewPapers(r1.papers, st.seen_ids, papers)
        r2       == [r1 EXCEPT !.papers = merged.papers]
        c2       == Append(c1, Call("merge", Len(r2.papers)))
    IN  IF ~verification.valid
        THEN [st EXCEPT
                !.results = r1,
                !.verification = verification,
                !.search_query = IF more THEN resp.rewrite ELSE @,
                !.iteration = it + 1,
                !.running = InRange(it + 1, max_iterations),
                !.calls = IF more THEN Append(c1, Call("rewrite", it)) ELSE c1]
        ELSE IF EnoughPapers(r2.papers)
        THEN [st EXCEPT
                !.results = r2,
                !.verification = verification,
                !.seen_ids = merged.seen_ids,
                !.running = FALSE,
                !.calls = c2]
        ELSE [st EXCEPT
                !.results = r2,
                !.verification = verification,
                !.seen_ids = merged.seen_ids,
                !.search_query = IF more THEN resp.rewrite ELSE @,
                !.iteration = it + 1,
                !.running = InRange(it + 1, max_iterations),
                !.calls = IF more THEN Append(c2, Call("refine", it)) ELSE c2]

\* Every response of the three tools to one iteration.
SearchResponses ==
    [papers : Batches, web : WebResponses, rewrite : RewriteQueries]

\* search_for_subquestion, lines 46-105, on the tool responses resps (one per
\* iteration, the unused ones ignored): the locals when the loop has ended.
RECURSIVE SearchLoop(_, _, _)
SearchLoop(st, max_iterations, resps) ==
    IF ~st.running \/ resps = <<>> THEN st
    ELSE SearchLoop(search_iteration(st, max_iterations, Head(resps)),
                    max_iterations, Tail(resps))

search_for_subquestion(sub_question, max_iterations, resps) ==
    SearchLoop(SearchStart(sub_question, max_iterations),
               max_iterations, resps).results

\* ------------------------------------------------------------ PlannerAgent
\* What llm.generate_json can return to the planning prompt (line 66): a JSON
\* value.  kind is "dict" for a mapping without an "error" key, "error" for
\* the mapping generate_json makes of unparsable text; has_sub_questions says
\* that a mapping has the key, sub_questions is its value: a list, or a value
\* that cannot be iterated (null, number), or a string or a mapping, whose
\* items are its characters or its keys.  An item of a list is a mapping with
\* some of the three fields, or (is_mapping false) anything else.
PlanItem(fields, question, search_query, evidence_type) ==
    [is_mapping |-> TRUE, fields |-> fields, question |-> question,
     search_query |-> search_query, evidence_type |-> evidence_type]

NotAMapping == [PlanItem({}, <<>>, <<>>, "") EXCEPT !.is_mapping = FALSE]

AllFields == {"question", "search_query", "evidence_type"}

ItemA == PlanItem(AllFields, TA, <<"qa">>, "survey")
ItemB == PlanItem(AllFields, TB, <<"qb">>, "empirical")
ItemC == PlanItem({"question"}, TC, <<>>, "")
ItemEmpty == PlanItem({}, <<>>, <<>>, "")

PlanSubQuestionValues ==
    {[kind |-> "list", items |-> its] :
        its \in {<<>>, <<ItemA>>, <<ItemB, ItemA>>, <<ItemA, ItemB, ItemC>>,
                 <<ItemA, ItemA>>, <<ItemEmpty>>, <<ItemC, ItemEmpty, ItemB>>,
                 <<NotAMapping>>, <<ItemA, NotAMapping>>}}
    \cup {[kind |-> k, items |-> <<>>] : k \in {"null", "number", "string", "dict"}}
    \cup {[kind |-> k, items |-> <<NotAMapping>>] : k \in {"string", "dict"}}

PlanResults ==
    {[kind |-> k, has_sub_questions |-> FALSE,
      sub_questions |-> [kind |-> "null", items |-> <<>>], approach_notes |-> n] :
        k \in {"null", "error", "list", "string", "number"}, n \in {<<>>}}
    \cup {[kind |-> "dict", has_sub_questions |-> FALSE,
           sub_questions |-> [kind |-> "null", items |-> <<>>],
           approach_notes |-> n] : n \in {<<>>, <<"notes">>}}
    \cup {[kind |-> "dict", has_sub_questions |-> TRUE, sub_questions |-> v,
           approach_notes |-> n] :
              v \in PlanSubQuestionValues, n \in {<<>>, <<"notes">>}}

\* isinstance(result, dict): the error value of generate_json is a dict too.
IsDict(result) == result.kind \in {"dict", "error"}

\* Lines 94-98: one SubQuestion of an item, with the defaults of sq.get.
ParseItem(sq) ==
    SubQuestion(IF "question" \in sq.fields THEN sq.question ELSE <<>>,
                IF "search_query" \in sq.fields THEN sq.search_query ELSE <<>>,
                IF "evidence_type" \in sq.fields THEN sq.evidence_type ELSE "survey")

\* Mutant of FallbackPlan: the second and third entries change places.
FallbackPlan_Swapped(query) ==
    <<SubQuestion(query, query, "survey"),
      SubQuestion(<<"Challenges", "and", "limitations", "of">> \o query,
                  query \o <<"challenges", "limitations">>, "theoretical"),
      SubQuestion(<<"Recent", "developments", "in">> \o query,
                  query \o <<"recent", "2024", "2025">>, "empirical")>>

\* Lines 102-106: the basic plan.
FallbackPlan(query) ==
    <<SubQuestion(query, query, "survey"),
      SubQuestion(<<"Recent", "developments", "in">> \o query,
                  query \o <<"recent", "2024", "2025">>, "empirical"),
      SubQuestion(<<"Challenges", "and", "limitations", "of">> \o query,
                  query \o <<"challenges", "limitations">>, "theoretical")>>

\* Mutant of UseFallback: a plan with fewer than 3 sub-questions is replaced too.
UseFallback_FewerThan3(sub_questions) == Len(sub_questions) < 3

\* Line 101: if not sub_questions.
UseFallback(sub_questions) == sub_questions = <<>>

\* Lines 90-112: create_plan on the model's answer result.  Iterating
\* result["sub_questions"] raises on null and on a number, and sq.get raises
\* on an item that is not a mapping.
create_plan(query, result) ==
    LET parse == IsDict(result) /\ result.has_sub_questions
        v     == result.sub_questions
        bad   == parse /\ (\/ v.kind \in {"null", "number"}
                           \/ \E k \in DOMAIN v.items : ~v.items[k].is_mapping)
        parsed == IF parse THEN [k \in DOMAIN v.items |-> ParseItem(v.items[k])]
                  ELSE <<>>
    IN  IF bad THEN [raised |-> TRUE]
        ELSE [raised |-> FALSE,
              plan |-> ResearchPlan(
                  query,
                  IF UseFallback(parsed) THEN FallbackPlan(query) ELSE parsed,
                  IF IsDict(result) THEN result.approach_notes ELSE <<>>)]

\* -------------------------------------------------- the outcome mapping
\* A Python dict, which keeps insertion order: a sequence of entries with
\* distinct keys.
DictKeys(d) == {d[k].key : k \in DOMAIN d}

DictHas(d, key) == key \in DictKeys(d)

DictGet(d, key) == d[CHOOSE k \in DOMAIN d : d[k].key = key].value

\* d[key] = value: replaces the value of an existing key in place, appends a
\* new one.
DictSet(d, key, value) ==
    IF DictHas(d, key)
    THEN [k \in DOMAIN d |->
             IF d[k].key = key THEN [key |-> key, value |-> value] ELSE d[k]]
    ELSE Append(d, [key |-> key, value |-> value])

\* ------------------------------------------------------------- CriticAgent
\* A score as the fraction num/den (den > 0): a model score in hundredths,
\* or the coverage ratio of the fallback.
Fraction(num, den) == [num |-> num, den |-> den]

\* Mutant of BelowThreshold: the threshold itself counts as below.
BelowThreshold_Inclusive(score) == score.num * 10 <= 6 * score.den

\* Line 61: quality_score < 0.6.
BelowThreshold(score) == score.num * 10 < 6 * score.den

\* Mutant of EmptyAbstract: an abstract of 20 characters is usable.
EmptyAbstract_Below20(p) == ~(p.abstract >= 20)

\* Lines 82-86: p counts as an empty abstract unless len(p.abstract) > 20.
EmptyAbstract(p) == ~(p.abstract > 20)

\* Lines 68-90: one issue per entry without papers, one per entry where more
\* than half of the papers (len(papers) // 2) have no usable abstract.
_check_tool_outputs(search_results) ==
    LET issue(e) ==
            LET papers == e.value.papers
                empty_abstracts ==
                    Cardinality({k \in DOMAIN papers : EmptyAbstract(papers[k])})
            IN  IF papers = <<>>
                THEN <<[kind |-> "No papers found", sub_q |-> e.key]>>
                ELSE IF empty_abstracts > Len(papers) \div 2
                THEN <<[kind |-> "Many empty abstracts", sub_q |-> e.key]>>
                ELSE <<>>
        RECURSIVE issues(_)
        issues(k) == IF k > Len(search_results) THEN <<>>
                     ELSE issue(search_results[k]) \o issues(k + 1)
    IN  issues(1)

\* Mutant of PlanQuestions: only the first sub-question is looked at.
PlanQuestions_FirstOnly(research_plan) ==
    <<research_plan.sub_questions[1].question>>

\* The questions of a plan, lines 114-117.
PlanQuestions(research_plan) ==
    [k \in DOMAIN research_plan.sub_questions |->
        research_plan.sub_questions[k].question]

\* Mutant of Covered: an entry counts, with or without papers.
Covered_KeyOnly(search_results, sq) == DictHas(search_results, sq)

\* Lines 155 and 161: sq is in search_results with at least one paper.
Covered(search_results, sq) ==
    DictHas(search_results, sq) /\ Len(DictGet(search_results, sq).papers) > 0

\* Lines 152-168: the heuristic fallback of _judge_quality.
JudgeFallback(research_plan, search_results) ==
    LET sub_questions == PlanQuestions(research_plan)
        hit == {k \in DOMAIN sub_questions : Covered(search_results, sub_questions[k])}
        coverage == Cardinality(hit)
        n == Len(sub_questions)
        RECURSIVE gaps(_)
        gaps(k) == IF k > n THEN <<>>
                   ELSE (IF k \in hit THEN <<>> ELSE <<sub_questions[k]>>) \o gaps(k + 1)
    IN  [raised   |-> FALSE,
         score    |-> Fraction(coverage, IF n > 1 THEN n ELSE 1),
         gaps     |-> [kind |-> "list", items |-> gaps(1)],
         feedback |-> <<"Covered", coverage, n>>]

\* What llm.generate_json can return to the judgment prompt (line 143): a JSON
\* value.  kind is "dict" for a mapping; has_score says that it has a "score"
\* key, score_numeric that float() accepts the value, score is the value in
\* hundredths (any number: the model is asked for 0.0-1.0, nothing checks it); gaps is the value of "gaps": a list of texts, or a value of
\* another kind (null, number, or a string, whose items are its characters),
\* or absent (then the default []).
JudgeGapsValues ==
    {[kind |-> "list", items |-> g] :
        g \in {<<>>, <<TA>>, <<TG>>, <<TB, TG, TA, TH>>}}
    \cup {[kind |-> k, items |-> <<>>] : k \in {"null", "number"}}
    \cup {[kind |-> "string", items |-> <<<<"g">>, <<"a">>, <<"p">>, <<"s">>>>]}

JudgeScores == {-20, 0, 59, 60, 100, 150}

JudgeResults ==
    {[kind |-> k, has_score |-> FALSE, score_numeric |-> FALSE, score |-> 0,
      gaps |-> [kind |-> "list", items |-> <<>>]] :
        k \in {"null", "error", "list", "dict"}}
    \cup {[kind |-> "dict", has_score |-> TRUE, score_numeric |-> FALSE,
           score |-> 0, gaps |-> [kind |-> "list", items |-> <<>>]]}
    \cup {[kind |-> "dict", has_score |-> TRUE, score_numeric |-> TRUE,
           score |-> s, gaps |-> g] : s \in JudgeScores, g \in JudgeGapsValues}

\* Lines 92-168: _judge_quality on the model's answer result.  float() raises
\* on a score that is not a number.
_judge_quality(research_plan, search_results, result) ==
    IF result.kind = "dict" /\ result.has_score
    THEN IF ~result.score_numeric
         THEN [raised |-> TRUE, score |-> Fraction(0, 1),
               gaps |-> result.gaps, feedback |-> <<>>]
         ELSE [raised |-> FALSE, score |-> Fraction(result.score, 100),
               gaps |-> result.gaps, feedback |-> <<"model">>]
    ELSE JudgeFallback(research_plan, search_results)

\* len(x) of a JSON value: raises TypeError on null and on a number, counts
\* the characters of a string.
HasLen(v) == v.kind \in {"list", "string"}

\* Mutant of NeedsMoreSearch: the gaps are not looked at.
NeedsMoreSearch_NoGaps(quality_score, gaps, tool_issues) ==
    BelowThreshold(quality_score) \/ Len(tool_issues) > 2

\* Mutant of NeedsMoreSearch: 2 tool issues are enough.
NeedsMoreSearch_TwoIssues(quality_score, gaps, tool_issues) ==
    \/ BelowThreshold(quality_score)
    \/ Len(gaps.items) > 0
    \/ Len(tool_issues) > 1

\* Lines 59-64: the decision, on values whose len() is defined.
NeedsMoreSearch(quality_score, gaps, tool_issues) ==
    \/ BelowThreshold(quality_score)
    \/ Len(gaps.items) > 0
    \/ Len(tool_issues) > 2

\* Lines 43-66: critique.  The or of lines 59-64 short-circuits: len(gaps) is
\* evaluated, and raises on a value without len(), only if the score is not
\* below the threshold.
critique(research_plan, search_results, result) ==
    LET tool_issues == _check_tool_outputs(search_results)
        quality     == _judge_quality(research_plan, search_results, result)
    IN  IF quality.raised \/ (~BelowThreshold(quality.score) /\ ~HasLen(quality.gaps))
        THEN [raised |-> TRUE]
        ELSE [raised            |-> FALSE,
              tool_issues       |-> tool_issues,
              quality_score     |-> quality.score,
              gaps              |-> quality.gaps,
              needs_more_search |-> NeedsMoreSearch(quality.score, quality.gaps,
                                                    tool_issues),
              feedback          |-> quality.feedback]

\* ------------------------------------------------------------ QualityScorer
\* A report is what the scorer reads of the text the model wrote: its word
\* count, whether a line starts with "#" or "**", whether it has two blank
\* lines, bullet markers, numbered items, the ids of the papers whose title
\* words it contains, and the number of citation-like patterns in it.
Report(words, heading, paragraphs, bullets, numbered, cites, patterns) ==
    [words |-> words, heading |-> heading, paragraphs |-> paragraphs,
     bullets |-> bullets, numbered |-> numbered, cites |-> cites,
     patterns |-> patterns]

\* What llm.generate can answer to the report and improvement prompts: the
\* error text of the client, a short flat text, a short structured text, and
\* two full reports that cite papers.
Reports ==
    {Report(4, FALSE, FALSE, FALSE, FALSE, {}, 1),
     Report(60, FALSE, FALSE, TRUE, FALSE, {}, 0),
     Report(80, TRUE, TRUE, FALSE, TRUE, {4}, 2),
     Report(300, TRUE, TRUE, TRUE, TRUE, {4, 5}, 3),
     Report(300, TRUE, TRUE, TRUE, TRUE, {3, 4, 5, 6}, 6)}

\* What llm.generate can answer to the relevance prompt: a number (in
\* hundredths, not always within [0,1]) or a text float() does not parse.
RelevanceAnswers ==
    {[numeric |-> FALSE, value |-> 0]}
    \cup {[numeric |-> TRUE, value |-> v] : v \in {-20, 0, 40, 70, 100, 300}}

\* Scores are in hundredths.  Lines 65-77.
_score_length(output) ==
    IF output.words < 50 THEN 20
    ELSE IF output.words < 100 THEN 50
    ELSE IF output.words < 500 THEN 100
    ELSE IF output.words < 1500 THEN 90
    ELSE 60

Min(a, b) == IF a < b THEN a ELSE b
Max(a, b) == IF a > b THEN a ELSE b

\* Mutant of _score_structure: every marker adds 0.2.
_score_structure_EqualSteps(output) ==
    Min(30 + (IF output.heading THEN 20 ELSE 0)
           + (IF output.paragraphs THEN 20 ELSE 0)
           + (IF output.bullets THEN 20 ELSE 0)
           + (IF output.numbered THEN 20 ELSE 0), 100)

\* Lines 79-99.
_score_structure(output) ==
    Min(30 + (IF output.heading THEN 20 ELSE 0)
           + (IF output.paragraphs THEN 20 ELSE 0)
           + (IF output.bullets THEN 15 ELSE 0)
           + (IF output.numbered THEN 15 ELSE 0), 100)

\* Lines 101-122, as a fraction: the share of the papers used that the report
\* cites (a paper without a title has no title words to find), or without
\* papers 0.2 per citation-like pattern, at most 1.
_score_citations(output, papers_used) ==
    IF papers_used = <<>>
    THEN Fraction(Min(output.patterns * 20, 100), 100)
    ELSE Fraction(Cardinality({k \in DOMAIN papers_used :
                                  /\ papers_used[k].title # ""
                                  /\ papers_used[k].arxiv_id \in output.cites}),
                  Len(papers_used))

\* Lines 124-145: the model's number clamped to [0,1], 0.5 if it is no number.
_score_relevance_llm(answer) ==
    IF answer.numeric THEN Max(0, Min(100, answer.value)) ELSE 50

\* Lines 147-163.
_generate_feedback(scores) ==
    LET feedback ==
            (IF scores.length < 50 THEN <<"too short">> ELSE <<>>)
            \o (IF scores.structure < 50 THEN <<"improve structure">> ELSE <<>>)
            \o (IF scores.citations.num * 2 < scores.citations.den
                THEN <<"cite more">> ELSE <<>>)
            \o (IF scores.relevance < 50 THEN <<"refocus">> ELSE <<>>)
    IN  IF feedback = <<>> THEN <<"Quality looks good">> ELSE feedback

\* Mutant of Overall: the four criteria weigh the same.
Overall_EqualWeights(scores, tie_up) ==
    LET n   == scores.citations.den
        num == (25 * scores.length + 25 * scores.structure
                + 25 * scores.relevance) * n + 2500 * scores.citations.num
        den == 100 * n
        q   == num \div den
        rem == num % den
    IN  IF 2 * rem > den \/ (2 * rem = den /\ tie_up) THEN q + 1 ELSE q

\* Lines 50-53: round(sum of score * weight, 2), in hundredths.  The exact sum
\* is num/den hundredths; a sum exactly halfway between two hundredths is
\* rounded as its floating-point value falls, up if tie_up.
Overall(scores, tie_up) ==
    LET n   == scores.citations.den
        num == (15 * scores.length + 20 * scores.structure
                + 35 * scores.relevance) * n + 3000 * scores.citations.num
        den == 100 * n
        q   == num \div den
        rem == num % den
    IN  IF 2 * rem > den \/ (2 * rem = den /\ tie_up) THEN q + 1 ELSE q

\* Mutant of Passes: a lower pass mark.
Passes_LowerMark(overall) == overall >= 50

\* Line 58: pass is overall >= 0.6.
Passes(overall) == overall >= 60

\* Lines 50-60: the result of score for the four criteria scores.
Combine(scores, tie_up) ==
    LET overall == Overall(scores, tie_up)
    IN  [scores   |-> scores,
         overall  |-> overall,
         pass     |-> Passes(overall),
         feedback |-> _generate_feedback(scores)]

\* Lines 33-63: score.
score(output, answer, papers_used, tie_up) ==
    Combine([length    |-> _score_length(output),
             structure |-> _score_structure(output),
             citations |-> _score_citations(output, papers_used),
             relevance |-> _score_relevance_llm(answer)], tie_up)

\* ---------------------------------------------------------- SynthesisAgent
\* Lines 48-51: the papers of every entry of the mapping.
RECURSIVE AllPapers(_)
AllPapers(search_results) ==
    IF search_results = <<>> THEN <<>>
    ELSE Head(search_results).value.papers \o AllPapers(Tail(search_results))

FirstN(s, n) == [k \in 1..Min(Len(s), n) |-> s[k]]

\* Lines 83-111: _build_context, one section per sub-question of the plan: its
\* question, the number of papers found and the ids of the first 5, or "No
\* results found" for a question the mapping has no entry for.
_build_context(research_plan, search_results) ==
    [k \in DOMAIN research_plan.sub_questions |->
        LET question == research_plan.sub_questions[k].question
        IN  IF ~DictHas(search_results, question)
            THEN [question |-> question, found |-> FALSE, papers_found |-> 0,
                  papers |-> <<>>]
            ELSE LET papers == DictGet(search_results, question).papers
                 IN  [question |-> question, found |-> TRUE,
                      papers_found |-> Len(papers),
                      papers |-> [j \in DOMAIN FirstN(papers, 5) |->
                                     papers[j].arxiv_id]]]

\* Lines 38-42: the digest, with the user's source material (if any) in front.
Context(research_plan, search_results, extra_context) ==
    [source_material |-> extra_context,
     sections |-> _build_context(research_plan, search_results)]

\* Mutant of NeedsImprovement: a report that passed is improved too.
NeedsImprovement_Always(quality) == TRUE

\* Line 57: if not quality["pass"].
NeedsImprovement(quality) == ~quality.pass

\* Mutant of StoreArgs: the quality score is left out of the metadata.
StoreArgs_NoScore(research_plan, query, report, all_papers, quality) ==
    [query    |-> query,
     findings |-> report,
     papers   |-> [k \in DOMAIN all_papers |-> all_papers[k].arxiv_id],
     metadata |-> [quality_score |-> 0,
                   sub_questions |-> PlanQuestions(research_plan),
                   total_papers  |-> Len(all_papers)]]

\* Lines 62-74: the arguments of memory.store.
StoreArgs(research_plan, query, report, all_papers, quality) ==
    [query    |-> query,
     findings |-> report,
     papers   |-> [k \in DOMAIN all_papers |-> all_papers[k].arxiv_id],
     metadata |-> [quality_score |-> quality.overall,
                   sub_questions |-> PlanQuestions(research_plan),
                   total_papers  |-> Len(all_papers)]]

\* Lines 31-81: synthesize as one call.  llm holds what the model answers:
\* the first report and its relevance, the improved report and its relevance
\* (used only if the first score fails); second is the clock at the store.
synthesize(research_plan, search_results, query, extra_context, llm, second) ==
    LET all_papers == AllPapers(search_results)
        first  == score(llm.report1, llm.answer1, all_papers, llm.tie1)
        improve == NeedsImprovement(first)
        report == IF improve THEN llm.report2 ELSE llm.report1
        quality == IF improve
                   THEN score(llm.report2, llm.answer2, all_papers, llm.tie2)
                   ELSE first
    IN  [report       |-> report,
         quality      |-> quality,
         memory_id    |-> second,
         papers_cited |-> Len(all_papers),
         stored       |-> StoreArgs(research_plan, query, report, all_papers, quality),
         context      |-> Context(research_plan, search_results, extra_context),
         generations  |-> IF improve THEN 2 ELSE 1]

\* ---------------------------------------------------- DeepResearchPipeline
\* The query argument of research(): None, or a text (the empty text too).
NoQuery == [none |-> TRUE, text |-> <<>>]
QueryText(text) == [none |-> FALSE, text |-> text]

\* Line 227.
max_critique_rounds == 2

\* Line 262: critique.gaps[:3].
GapLimit == 3

\* Mutant of LastRound: the loop never reaches its bound.
LastRound_Never(round_num) == FALSE

\* Line 248: round_num == max_critique_rounds - 1.
LastRound(round_num) == round_num = max_critique_rounds - 1

\* Lines 37-43 and 52-55: a step of the log.
PipelineStep(name, status) == [name |-> name, status |-> status]

\* The status of the last step of the log is set.
SetStatus(log, status) == [log EXCEPT ![Len(log)].status = status]

\* Lines 121-134: search_for_gap, one rewriter call and a search of at most 2
\* iterations for the gap as a sub-question.
GapMaxIterations == 2

search_for_gap(gap, optimized_query, resps) ==
    search_for_subquestion(SubQuestion(gap, optimized_query, "survey"),
                           GapMaxIterations, resps)

\* Lines 107-119: search_all, all_results[question] = results for each
\* sub-question in plan order; resps[k] are the tool responses to the search
\* of sub-question k.
RECURSIVE SearchAllFrom(_, _, _, _)
SearchAllFrom(all_results, sub_questions, resps, k) ==
    IF k > Len(sub_questions) THEN all_results
    ELSE SearchAllFrom(
             DictSet(all_results, sub_questions[k].question,
                     search_for_subquestion(sub_questions[k],
                                            DefaultMaxIterations, resps[k])),
             sub_questions, resps, k + 1)

search_all(research_plan, resps) ==
    SearchAllFrom(<<>>, research_plan.sub_questions, resps, 1)

\* Line 116: what the search_for_subquestion calls of search_all return, in
\* plan order.
SearchCalls(research_plan, resps) ==
    [k \in DOMAIN research_plan.sub_questions |->
        search_for_subquestion(research_plan.sub_questions[k],
                               DefaultMaxIterations, resps[k])]

\* Lines 262-264: for gap in critique.gaps[:3]: search_results[gap] =
\* search_for_gap(gap, query).
RECURSIVE GapReSearchFrom(_, _, _, _)
GapReSearchFrom(search_results, gaps, resps, k) ==
    IF k > Len(gaps) THEN search_results
    ELSE GapReSearchFrom(
             DictSet(search_results, gaps[k],
                     search_for_gap(gaps[k], <<"r0">>, resps[k])),
             gaps, resps, k + 1)

\* ------------------------------------------------- SearchSpec: one search
\* The sub-question the search is called with in SearchSpec.
SearchSubQuestion == SubQuestion(TA, <<"q0">>, "survey")

SearchInit ==
    /\ search \in {[pc |-> "loop", sub_question |-> SearchSubQuestion,
                    max_iterations |-> n,
                    st |-> SearchStart(SearchSubQuestion, n)] :
                       n \in 0..DefaultMaxIterations}
    /\ planner = Off /\ critic = Off /\ synthesizer = Off /\ pipeline = Off
    /\ scorer = Off /\ memory = Off /\ twin = Off

\* One iteration of the loop of search_for_subquestion.
SearchIterate ==
    /\ search.pc = "loop"
    /\ search.st.running
    /\ \E resp \in SearchResponses :
          search' = [search EXCEPT
                       !.st = search_iteration(@, search.max_iterations, resp)]
    /\ UNCHANGED <<planner, critic, synthesizer, pipeline, scorer, memory, twin>>

\* Line 105: return results.
SearchReturn ==
    /\ search.pc = "loop"
    /\ ~search.st.running
    /\ search' = [search EXCEPT !.pc = "returned"]
    /\ UNCHANGED <<planner, critic, synthesizer, pipeline, scorer, memory, twin>>

SearchNext == SearchIterate \/ SearchReturn

SearchSpec == SearchInit /\ [][SearchNext]_vars

\* ------------------------------------------------ GapSpec: one gap search
\* Mutant of GapSearchStart: the iteration bound of the gap search is left
\* at its default.
GapSearchStart_DefaultBound(gap, optimized_query) ==
    [pc |-> "loop",
     sub_question   |-> SubQuestion(gap, optimized_query, "survey"),
     max_iterations |-> DefaultMaxIterations,
     st |-> SearchStart(SubQuestion(gap, optimized_query, "survey"),
                        DefaultMaxIterations),
     rewrites |-> 1]

\* Lines 126-134: search_for_gap after its rewriter call: the gap becomes a
\* sub-question with the rewritten query, searched with max_iterations=2.
GapSearchStart(gap, optimized_query) ==
    [pc |-> "loop",
     sub_question   |-> SubQuestion(gap, optimized_query, "survey"),
     max_iterations |-> GapMaxIterations,
     st |-> SearchStart(SubQuestion(gap, optimized_query, "survey"),
                        GapMaxIterations),
     rewrites |-> 1]

\* search_for_gap is called with a gap; rewrites counts the calls of the
\* rewriter that search_for_gap makes itself.
GapInit ==
    /\ search \in {[pc |-> "gap_call", gap |-> g, rewrites |-> 0] : g \in {TG, TA}}
    /\ planner = Off /\ critic = Off /\ synthesizer = Off /\ pipeline = Off
    /\ scorer = Off /\ memory = Off /\ twin = Off

\* Line 126: rewriter.rewrite_for_search(gap, context=main_query).
GapRewrite ==
    /\ search.pc = "gap_call"
    /\ \E optimized_query \in RewriteQueries :
          search' = GapSearchStart(search.gap, optimized_query)
    /\ UNCHANGED <<planner, critic, synthesizer, pipeline, scorer, memory, twin>>

GapNext == GapRewrite \/ SearchIterate \/ SearchReturn

GapSpec == GapInit /\ [][GapNext]_vars

\* ----------------------------------------------- CriticSpec: one critique
\* The plans critique is called with in CriticSpec: one to three
\* sub-questions, two of them with the same text in one plan.
CriticPlans ==
    {ResearchPlan(<<"q">>, [k \in DOMAIN qs |-> SubQuestion(qs[k], qs[k], "survey")], <<>>) :
        qs \in {<<TA>>, <<TA, TB>>, <<TA, TB, TC>>, <<TA, TA>>}}

\* The evidence lists of the outcomes critique is called with in CriticSpec:
\* none, one good paper, one with a short abstract, and mixes.
CriticPaperLists ==
    {<<>>, <<Paper(4)>>, <<Paper(3)>>, <<Paper(3), Paper(4)>>,
     <<Paper(2), Paper(3), Paper(4)>>, <<Paper(5)>>, <<Paper(6)>>}

\* The outcome mappings of CriticSpec: any of the keys A, B and a gap key, in
\* this order, each with one of the evidence lists.
RECURSIVE MappingsOver(_)
MappingsOver(keys) ==
    IF keys = <<>> THEN {<<>>}
    ELSE LET rest == MappingsOver(Tail(keys))
         IN  rest \cup
             {<<[key |-> Head(keys),
                 value |-> [SearchResults(Head(keys)) EXCEPT !.papers = pl]]>> \o m :
                 pl \in CriticPaperLists, m \in rest}

CriticInit ==
    /\ critic \in {[pc |-> "call", research_plan |-> pl, search_results |-> sr,
                    result |-> r, out |-> [raised |-> FALSE]] :
                       pl \in CriticPlans,
                       sr \in MappingsOver(<<TA, TB, TG>>),
                       r \in JudgeResults}
    /\ search = Off /\ planner = Off /\ synthesizer = Off /\ pipeline = Off
    /\ scorer = Off /\ memory = Off /\ twin = Off

\* critique returns a CritiqueResult.
CritiqueReturn ==
    /\ critic.pc = "call"
    /\ LET out == critique(critic.research_plan, critic.search_results, critic.result)
       IN  /\ ~out.raised
           /\ critic' = [critic EXCEPT !.pc = "returned", !.out = out]
    /\ UNCHANGED <<search, planner, synthesizer, pipeline, scorer, memory, twin>>

\* critique raises (float() or len() of a value of the wrong type).
CritiqueRaise ==
    /\ critic.pc = "call"
    /\ critique(critic.research_plan, critic.search_results, critic.result).raised
    /\ critic' = [critic EXCEPT !.pc = "raised", !.out = [raised |-> TRUE]]
    /\ UNCHANGED <<search, planner, synthesizer, pipeline, scorer, memory, twin>>

CriticNext == CritiqueReturn \/ CritiqueRaise

CriticSpec == CriticInit /\ [][CriticNext]_vars

\* ------------------------------------------------ PlanSpec: one create_plan
\* The queries create_plan is called with: a text, and the empty text.
Queries == {<<"q">>, <<>>}

PlanInit ==
    /\ planner \in {[pc |-> "call", query |-> q, result |-> r,
                     out |-> [raised |-> FALSE]] :
                        q \in Queries, r \in PlanResults}
    /\ search = Off /\ critic = Off /\ synthesizer = Off /\ pipeline = Off
    /\ scorer = Off /\ memory = Off /\ twin = Off

\* create_plan returns a ResearchPlan.
PlanReturn ==
    /\ planner.pc = "call"
    /\ LET out == create_plan(planner.query, planner.result)
       IN  /\ ~out.raised
           /\ planner' = [planner EXCEPT !.pc = "returned", !.out = out]
    /\ UNCHANGED <<search, critic, synthesizer, pipeline, scorer, memory, twin>>

\* create_plan raises (iterating or reading a value of the wrong type).
PlanRaise ==
    /\ planner.pc = "call"
    /\ create_plan(planner.query, planner.result).raised
    /\ planner' = [planner EXCEPT !.pc = "raised", !.out = [raised |-> TRUE]]
    /\ UNCHANGED <<search, critic, synthesizer, pipeline, scorer, memory, twin>>

PlanNext == PlanReturn \/ PlanRaise

PlanSpec == PlanInit /\ [][PlanNext]_vars

\* -------------------------------------------------- SynthSpec: one synthesize
\* The clock seconds at which memory.store can run (its id is the time).
StoreSeconds == {1, 2}

\* The plan and the outcome mappings synthesize is called with in SynthSpec:
\* a plan of A and B; A with papers, B with or without an entry or papers, and
\* with or without a gap entry.
SynthPlan ==
    ResearchPlan(<<"q">>, <<SubQuestion(TA, <<"qa">>, "survey"),
                            SubQuestion(TB, <<"qb">>, "empirical")>>, <<>>)

Outcome(key, papers) == [SearchResults(key) EXCEPT !.papers = papers]

SynthMappings ==
    {<<>>,
     <<[key |-> TA, value |-> Outcome(TA, <<Paper(4), Paper(5)>>)]>>,
     <<[key |-> TA, value |-> Outcome(TA, <<Paper(4), Paper(5)>>)],
       [key |-> TB, value |-> Outcome(TB, <<>>)]>>,
     <<[key |-> TA, value |-> Outcome(TA, <<Paper(3), Paper(4)>>)],
       [key |-> TB, value |-> Outcome(TB, <<Paper(4), Paper(5), Paper(6)>>)],
       [key |-> TG, value |-> Outcome(TG, <<Paper(6), Paper(7)>>)]>>}

SynthInit ==
    /\ synthesizer \in
         {[pc |-> "generate", research_plan |-> SynthPlan, search_results |-> sr,
           query |-> <<"q">>, extra_context |-> x,
           context |-> Context(SynthPlan, sr, x),
           report |-> <<>>, quality |-> <<>>, calls |-> <<>>, stored |-> <<>>,
           out |-> <<>>] :
              sr \in SynthMappings, x \in {<<>>, <<"source">>}}
    /\ search = Off /\ planner = Off /\ critic = Off /\ pipeline = Off
    /\ scorer = Off /\ memory = Off /\ twin = Off

\* Line 45: report = self._generate_report(query, context).
SynthGenerate ==
    /\ synthesizer.pc = "generate"
    /\ \E report \in Reports :
          synthesizer' = [synthesizer EXCEPT
                             !.pc = "score",
                             !.report = report,
                             !.calls = Append(@, Call("generate", report))]
    /\ UNCHANGED <<search, planner, critic, pipeline, scorer, memory, twin>>

\* Lines 48-57: the first score; an improvement pass follows if it fails.
SynthScore ==
    /\ synthesizer.pc = "score"
    /\ \E answer \in RelevanceAnswers, tie_up \in BOOLEAN :
          LET quality == score(synthesizer.report, answer,
                               AllPapers(synthesizer.search_results), tie_up)
          IN  synthesizer' = [synthesizer EXCEPT
                  !.pc = IF NeedsImprovement(quality) THEN "improve" ELSE "store",
                  !.quality = quality,
                  !.calls = Append(@, Call("score", IF quality.pass THEN 1 ELSE 0))]
    /\ UNCHANGED <<search, planner, critic, pipeline, scorer, memory, twin>>

\* Line 58: report = self._improve_report(...).
SynthImprove ==
    /\ synthesizer.pc = "improve"
    /\ \E report \in Reports :
          synthesizer' = [synthesizer EXCEPT
                             !.pc = "rescore",
                             !.report = report,
                             !.calls = Append(@, Call("improve", report))]
    /\ UNCHANGED <<search, planner, critic, pipeline, scorer, memory, twin>>

\* Line 59: the second score, whatever it is.
SynthRescore ==
    /\ synthesizer.pc = "rescore"
    /\ \E answer \in RelevanceAnswers, tie_up \in BOOLEAN :
          LET quality == score(synthesizer.report, answer,
                               AllPapers(synthesizer.search_results), tie_up)
          IN  synthesizer' = [synthesizer EXCEPT
                  !.pc = "store",
                  !.quality = quality,
                  !.calls = Append(@, Call("score", IF quality.pass THEN 1 ELSE 0))]
    /\ UNCHANGED <<search, planner, critic, pipeline, scorer, memory, twin>>

\* Lines 62-81: memory.store and the return value.
SynthStore ==
    /\ synthesizer.pc = "store"
    /\ \E second \in StoreSeconds :
          synthesizer' = [synthesizer EXCEPT
              !.pc = "returned",
              !.calls = Append(@, Call("store", 0)),
              !.stored = StoreArgs(synthesizer.research_plan, synthesizer.query,
                                   synthesizer.report,
                                   AllPapers(synthesizer.search_results),
                                   synthesizer.quality),
              !.out = [report       |-> synthesizer.report,
                       quality      |-> synthesizer.quality,
                       memory_id    |-> second,
                       papers_cited |-> Len(AllPapers(synthesizer.search_results))]]
    /\ UNCHANGED <<search, planner, critic, pipeline, scorer, memory, twin>>

SynthNext ==
    SynthGenerate \/ SynthScore \/ SynthImprove \/ SynthRescore \/ SynthStore

SynthSpec == SynthInit /\ [][SynthNext]_vars

\* ------------------------------------------------------ Spec: one research()
\* What the tools answer to one search in a run of research(): the same
\* response in every iteration; no papers but web hits, two papers, or five.
RespNone == [papers |-> <<>>, web |-> [raised |-> FALSE, hits |-> <<"u1", "u2", "u1">>],
             rewrite |-> <<"r1">>]
RespTwo  == [papers |-> Run(4, 2), web |-> [raised |-> TRUE, hits |-> <<>>],
             rewrite |-> <<"r1">>]
RespFive == [papers |-> Run(4, 5), web |-> [raised |-> FALSE, hits |-> <<>>],
             rewrite |-> <<"r2">>]

PipeSearches == {<<r, r, r>> : r \in {RespNone, RespTwo, RespFive}}

PipeGapSearches == {<<r, r>> : r \in {RespNone, RespTwo}}

\* What the model answers to the planning prompt in a run of research().
PipePlanResults ==
    {r \in PlanResults :
        /\ r.approach_notes = <<>>
        /\ \/ r.kind = "null"
           \/ /\ r.has_sub_questions
              /\ r.sub_questions.kind = "list"
              /\ r.sub_questions.items \in
                    {<<ItemA>>, <<ItemB, ItemA>>, <<ItemA, ItemA>>,
                     <<ItemA, NotAMapping>>}}

\* What the model answers to the judgment prompt in a run of research().
PipeJudgeResults ==
    {r \in JudgeResults :
        \/ r.kind = "null"
        \/ r.has_score /\ ~r.score_numeric
        \/ /\ r.has_score /\ r.score_numeric
           /\ \/ r.score = 100 /\ r.gaps.kind = "list"
                 /\ r.gaps.items \in {<<>>, <<TA>>}
              \/ r.score = 59 /\ r.gaps.kind = "list"
                 /\ r.gaps.items \in {<<>>, <<TB, TG, TA, TH>>}
              \/ r.score = 0 /\ r.gaps.kind = "null"
              \/ r.score = 60 /\ r.gaps.kind = "string"}

\* What the model answers during synthesis in a run of research().
PipeLlm ==
    {[report1 |-> r, answer1 |-> [numeric |-> TRUE, value |-> 100], tie1 |-> FALSE,
      report2 |-> Report(80, TRUE, TRUE, FALSE, TRUE, {4}, 2),
      answer2 |-> [numeric |-> FALSE, value |-> 0], tie2 |-> FALSE] :
        r \in {Report(4, FALSE, FALSE, FALSE, FALSE, {}, 1),
               Report(300, TRUE, TRUE, TRUE, TRUE, {4, 5}, 3)}}

\* The points of a step at which the observer callback is called and can
\* fail: none (0) without a callback.
FailPoints(callback, n) == IF callback THEN 0..n ELSE {0}

\* Lines 150-152: notify calls the callback if there is one; notified keeps
\* the step names the callback was called with.
Notify(notified, callback, step_name) ==
    IF callback THEN Append(notified, step_name) ELSE notified

\* An exception leaves research(): what was done so far stays done.  error
\* names what raised: the observer callback, or the statement of the code.
Raise(p, error, calls, log, notified) ==
    [p EXCEPT !.pc = "raised", !.error = error, !.calls = calls, !.log = log,
              !.notified = notified]

\* What pdf_parser.parse_local and url_extractor.extract return: the text
\* with status "success", or status "failed" with an error and the text "".
ExtractResults ==
    {[status |-> "success", text |-> <<"source">>, error |-> <<>>],
     [status |-> "failed", text |-> <<>>, error |-> <<"File", "not", "found">>]}

\* Mutant of ExtractedContext: a failure leaves its error text as the context.
ExtractedContext_ErrorText(result) ==
    IF result.status = "success" THEN result.text ELSE result.error

\* Lines 107 and 113-114 (124-125 for a url): the context is the text of a
\* successful extraction and stays "" otherwise.
ExtractedContext(result) ==
    IF result.status = "success" THEN result.text ELSE <<>>

\* The runs of research(): no query, an empty one or a query text; no source,
\* a paper or a url; with and without an observer callback.
PipelineStart(query, source, callback) ==
    [pc |-> "start", query |-> query, source |-> source, callback |-> callback,
     user_context |-> <<>>, recalled |-> 0, plan |-> <<>>,
     search_results |-> <<>>, critique |-> <<>>, round_num |-> 0,
     log |-> <<>>, calls |-> <<>>, out |-> <<>>, error |-> "",
     searched |-> <<>>, notified |-> <<>>, extracted |-> "none"]

Init ==
    /\ pipeline \in
         {PipelineStart(q, s, cb) :
              q \in {NoQuery, QueryText(<<>>), QueryText(<<"q">>)},
              s \in {"none", "paper"}, cb \in BOOLEAN}
         \cup {PipelineStart(QueryText(<<"q">>), "url", FALSE)}
    /\ search = Off /\ planner = Off /\ critic = Off /\ synthesizer = Off
    /\ scorer = Off /\ memory = Off /\ twin = Off

\* Line 157 and lines 104-131: _extract_context.  Without a paper or url
\* nothing is called; with one the callback is called before and after the
\* parser or extractor.
ExtractContextStep(p, fail, result) ==
    LET calls == Append(p.calls, Call(IF p.source = "paper" THEN "parse_local"
                                      ELSE "extract", 0))
        n1    == Notify(p.notified, p.callback, "Input Processing")
        n2    == Notify(n1, p.callback, "Input Processing")
    IN  IF p.source = "none" THEN [p EXCEPT !.pc = "recall"]
        ELSE IF fail = 1 THEN Raise(p, "callback", p.calls, p.log, n1)
        ELSE IF fail = 2
        THEN [Raise(p, "callback", calls, p.log, n2)
                 EXCEPT !.extracted = result.status]
        ELSE [p EXCEPT !.pc = "recall", !.calls = calls, !.notified = n2,
                       !.extracted = result.status,
                       !.user_context = ExtractedContext(result)]

ExtractContext ==
    /\ pipeline.pc = "start"
    /\ IF pipeline.source = "none"
       THEN pipeline' = ExtractContextStep(pipeline, 0, CHOOSE r \in ExtractResults : TRUE)
       ELSE \E fail \in FailPoints(pipeline.callback, 2), result \in ExtractResults :
              pipeline' = ExtractContextStep(pipeline, fail, result)
    /\ UNCHANGED <<search, planner, critic, synthesizer, scorer, memory, twin>>

\* Lines 162-170: memory.recall(query), which raises on None (query.lower()),
\* finds nothing for a text without words, and is followed by a notification
\* if it found entries.
MemoryRecallStep(p, fail, found) ==
    LET calls == Append(p.calls, Call("recall", 0))
        n1    == Notify(p.notified, p.callback, "Memory Recall")
        n2    == IF found > 0 THEN Notify(n1, p.callback, "Memory Recall") ELSE n1
    IN  IF fail = 1 THEN Raise(p, "callback", p.calls, p.log, n1)
        ELSE IF p.query.none THEN Raise(p, "recall", calls, p.log, n1)
        ELSE IF fail = 2 THEN Raise(p, "callback", calls, p.log, n2)
        ELSE [p EXCEPT !.pc = "plan", !.calls = calls, !.notified = n2,
                       !.recalled = found]

\* What recall can find for a query.
RecallFinds(query) == IF query.text = <<>> THEN {0} ELSE {0, 1}

MemoryRecall ==
    /\ pipeline.pc = "recall"
    /\ \E fail \in FailPoints(pipeline.callback, 2),
          found \in RecallFinds(pipeline.query) :
          /\ fail = 2 => found > 0 /\ ~pipeline.query.none
          /\ pipeline' = MemoryRecallStep(pipeline, fail, found)
    /\ UNCHANGED <<search, planner, critic, synthesizer, scorer, memory, twin>>

\* Lines 175-194: the planning step.
PlanStep(p, fail, result) ==
    LET log   == Append(p.log, PipelineStep(<<"Research Planning">>, "running"))
        calls == Append(p.calls, Call("create_plan", 0))
        made  == create_plan(p.query.text, result)
        n1    == Notify(p.notified, p.callback, "Research Planning")
        n2    == Notify(n1, p.callback, "Research Planning")
    IN  IF fail = 1 THEN Raise(p, "callback", p.calls, log, n1)
        ELSE IF made.raised THEN Raise(p, "create_plan", calls, log, n1)
        ELSE IF fail = 2
        THEN Raise(p, "callback", calls, SetStatus(log, "complete"), n2)
        ELSE [p EXCEPT !.pc = "search", !.calls = calls, !.notified = n2,
                       !.log = SetStatus(log, "complete"),
                       !.plan = made.plan]

Plan ==
    /\ pipeline.pc = "plan"
    /\ \E fail \in FailPoints(pipeline.callback, 2), result \in PipePlanResults :
          /\ fail = 2 => ~create_plan(pipeline.query.text, result).raised
          /\ pipeline' = PlanStep(pipeline, fail, result)
    /\ UNCHANGED <<search, planner, critic, synthesizer, scorer, memory, twin>>

\* Lines 199-222: the search step; searched keeps what each call of
\* search_for_subquestion returned.
SearchStep(p, fail, resps) ==
    LET log   == Append(p.log, PipelineStep(<<"Iterative Search">>, "running"))
        calls == Append(p.calls, Call("search_all", Len(p.plan.sub_questions)))
        n1    == Notify(p.notified, p.callback, "Iterative Search")
        n2    == Notify(n1, p.callback, "Iterative Search")
    IN  IF fail = 1 THEN Raise(p, "callback", p.calls, log, n1)
        ELSE IF fail = 2
        THEN Raise(p, "callback", calls, SetStatus(log, "complete"), n2)
        ELSE [p EXCEPT
                !.pc = "critique", !.calls = calls, !.notified = n2,
                !.log = SetStatus(log, "complete"),
                !.search_results = search_all(p.plan, resps),
                !.searched = SearchCalls(p.plan, resps)]

Search ==
    /\ pipeline.pc = "search"
    /\ \E fail \in FailPoints(pipeline.callback, 2),
          resps \in [DOMAIN pipeline.plan.sub_questions -> PipeSearches] :
          pipeline' = SearchStep(pipeline, fail, resps)
    /\ UNCHANGED <<search, planner, critic, synthesizer, scorer, memory, twin>>

\* Lines 230-257: one critique round.  The loop is left for synthesis if no
\* more search is needed or this is the last round; otherwise the step is
\* marked gaps_found and the notification text takes len(critique.gaps),
\* which raises on a value without len(), callback or not.
CritiqueRoundStep(p, fail, result) ==
    LET round == p.round_num
        log   == Append(p.log,
                        PipelineStep(<<"Self-Critique", round + 1>>, "running"))
        calls == Append(p.calls, Call("critique", round))
        c     == critique(p.plan, p.search_results, result)
        leave == ~c.needs_more_search \/ LastRound(round)
        status == IF leave THEN "complete" ELSE "gaps_found"
        n1    == Notify(p.notified, p.callback, "Self-Critique")
        n2    == Notify(n1, p.callback, "Self-Critique")
    IN  IF fail = 1 THEN Raise(p, "callback", p.calls, log, n1)
        ELSE IF c.raised THEN Raise(p, "critique", calls, log, n1)
        ELSE IF ~leave /\ ~HasLen(c.gaps)
        THEN [Raise(p, "len", calls, SetStatus(log, status), n1)
                 EXCEPT !.critique = c]
        ELSE IF fail = 2
        THEN [Raise(p, "callback", calls, SetStatus(log, status), n2)
                 EXCEPT !.critique = c]
        ELSE [p EXCEPT
                !.pc = IF leave THEN "synthesize" ELSE "gaps",
                !.calls = calls, !.notified = n2,
                !.log = SetStatus(log, status),
                !.critique = c]

CritiqueRound ==
    /\ pipeline.pc = "critique"
    /\ \E fail \in FailPoints(pipeline.callback, 2), result \in PipeJudgeResults :
          LET c     == critique(pipeline.plan, pipeline.search_results, result)
              leave == ~c.needs_more_search \/ LastRound(pipeline.round_num)
          IN  /\ fail = 2 => ~c.raised /\ (leave \/ HasLen(c.gaps))
              /\ pipeline' = CritiqueRoundStep(pipeline, fail, result)
    /\ UNCHANGED <<search, planner, critic, synthesizer, scorer, memory, twin>>

\* Mutant of GapsToSearch: every gap is searched again.
GapsToSearch_NoLimit(p) == p.critique.gaps.items

\* Mutant of GapsToSearch: gaps are searched again only under observation.
GapsToSearch_OnlyObserved(p) ==
    IF p.callback THEN FirstN(p.critique.gaps.items, GapLimit) ELSE <<>>

\* Mutant of GapsToSearch: with no gap named, the query itself is searched
\* again.
GapsToSearch_QueryWhenEmpty(p) ==
    IF p.critique.gaps.items = <<>> THEN <<p.query.text>>
    ELSE FirstN(p.critique.gaps.items, GapLimit)

\* Line 262: the gaps that are searched again.
GapsToSearch(p) == FirstN(p.critique.gaps.items, GapLimit)

\* Mutant of GapReSearchStep: synthesis follows the gap re-search directly.
GapReSearchStep_ThenSynthesize(p, resps) ==
    LET gaps == FirstN(p.critique.gaps.items, GapLimit)
    IN  [p EXCEPT
           !.pc = "synthesize",
           !.round_num = @ + 1,
           !.calls = @ \o [k \in DOMAIN gaps |-> Call("search_for_gap", gaps[k])],
           !.log = Append(@, PipelineStep(<<"Gap Re-Search">>, "complete")),
           !.search_results = GapReSearchFrom(@, gaps, resps, 1)]

\* Lines 259-267: the gap re-search, then the next round.  The step is put
\* into the log; the callback is not called.
GapReSearchStep(p, resps) ==
    LET gaps == GapsToSearch(p)
    IN  [p EXCEPT
           !.pc = "critique",
           !.round_num = @ + 1,
           !.calls = @ \o [k \in DOMAIN gaps |-> Call("search_for_gap", gaps[k])],
           !.log = Append(@, PipelineStep(<<"Gap Re-Search">>, "complete")),
           !.search_results = GapReSearchFrom(@, gaps, resps, 1)]

GapReSearch ==
    /\ pipeline.pc = "gaps"
    /\ \E resps \in [DOMAIN GapsToSearch(pipeline) -> PipeGapSearches] :
          pipeline' = GapReSearchStep(pipeline, resps)
    /\ UNCHANGED <<search, planner, critic, synthesizer, scorer, memory, twin>>

\* Lines 272-309: the synthesis step and the return value.
SynthesizeStep(p, fail, llm) ==
    LET log   == Append(p.log, PipelineStep(<<"Synthesis + Memory">>, "running"))
        calls == Append(p.calls, Call("synthesize", p.round_num))
        synthesis == synthesize(p.plan, p.search_results, p.query.text,
                                p.user_context, llm, 1)
        n1    == Notify(p.notified, p.callback, "Synthesis + Memory")
        n2    == Notify(n1, p.callback, "Synthesis + Memory")
    IN  IF fail = 1 THEN Raise(p, "callback", p.calls, log, n1)
        ELSE IF fail = 2
        THEN Raise(p, "callback", calls, SetStatus(log, "complete"), n2)
        ELSE [p EXCEPT
                !.pc = "returned", !.calls = calls, !.notified = n2,
                !.log = SetStatus(log, "complete"),
                !.out = [report         |-> synthesis.report,
                         quality        |-> synthesis.quality,
                         plan           |-> p.plan,
                         search_results |-> p.search_results,
                         critique       |-> p.critique,
                         memory_id      |-> synthesis.memory_id,
                         all_papers     |-> AllPapers(p.search_results),
                         user_context   |-> p.user_context]]

Synthesize ==
    /\ pipeline.pc = "synthesize"
    /\ \E fail \in FailPoints(pipeline.callback, 2), llm \in PipeLlm :
          pipeline' = SynthesizeStep(pipeline, fail, llm)
    /\ UNCHANGED <<search, planner, critic, synthesizer, scorer, memory, twin>>

Next ==
    \/ ExtractContext
    \/ MemoryRecall
    \/ Plan
    \/ Search
    \/ CritiqueRound
    \/ GapReSearch
    \/ Synthesize

Spec == Init /\ [][Next]_vars

\* ------------------------------- ObserverSpec: two runs, one of them observed
\* Two runs of research() on the same query and source and with the same
\* answers of every collaborator: pipeline is called with an observer callback
\* that returns normally, twin without one.
ObserverInit ==
    /\ \E q \in {NoQuery, QueryText(<<>>), QueryText(<<"q">>)},
          s \in {"none", "paper", "url"} :
          /\ pipeline = PipelineStart(q, s, TRUE)
          /\ twin = PipelineStart(q, s, FALSE)
    /\ search = Off /\ planner = Off /\ critic = Off /\ synthesizer = Off
    /\ scorer = Off /\ memory = Off

\* Both runs are at the same step.
BothAt(pc) == pipeline.pc = pc /\ twin.pc = pc

ObservedExtractContext ==
    /\ BothAt("start")
    /\ \E result \in ExtractResults :
          /\ pipeline' = ExtractContextStep(pipeline, 0, result)
          /\ twin' = ExtractContextStep(twin, 0, result)
    /\ UNCHANGED <<search, planner, critic, synthesizer, scorer, memory>>

ObservedMemoryRecall ==
    /\ BothAt("recall")
    /\ \E found \in RecallFinds(pipeline.query) :
          /\ pipeline' = MemoryRecallStep(pipeline, 0, found)
          /\ twin' = MemoryRecallStep(twin, 0, found)
    /\ UNCHANGED <<search, planner, critic, synthesizer, scorer, memory>>

ObservedPlan ==
    /\ BothAt("plan")
    /\ \E result \in PipePlanResults :
          /\ pipeline' = PlanStep(pipeline, 0, result)
          /\ twin' = PlanStep(twin, 0, result)
    /\ UNCHANGED <<search, planner, critic, synthesizer, scorer, memory>>

ObservedSearch ==
    /\ BothAt("search")
    /\ \E resps \in [DOMAIN pipeline.plan.sub_questions -> PipeSearches] :
          /\ pipeline' = SearchStep(pipeline, 0, resps)
          /\ twin' = SearchStep(twin, 0,
                             [k \in DOMAIN twin.plan.sub_questions |-> resps[k]])
    /\ UNCHANGED <<search, planner, critic, synthesizer, scorer, memory>>

ObservedCritiqueRound ==
    /\ BothAt("critique")
    /\ \E result \in PipeJudgeResults :
          /\ pipeline' = CritiqueRoundStep(pipeline, 0, result)
          /\ twin' = CritiqueRoundStep(twin, 0, result)
    /\ UNCHANGED <<search, planner, critic, synthesizer, scorer, memory>>

\* The gap searches of the two runs get the same answers, search by search.
ObservedGapReSearch ==
    /\ BothAt("gaps")
    /\ \E resps \in [1..GapLimit -> PipeGapSearches] :
          /\ pipeline' = GapReSearchStep(pipeline,
                             [k \in DOMAIN GapsToSearch(pipeline) |-> resps[k]])
          /\ twin' = GapReSearchStep(twin,
                             [k \in DOMAIN GapsToSearch(twin) |-> resps[k]])
    /\ UNCHANGED <<search, planner, critic, synthesizer, scorer, memory>>

ObservedSynthesize ==
    /\ BothAt("synthesize")
    /\ \E llm \in PipeLlm :
          /\ pipeline' = SynthesizeStep(pipeline, 0, llm)
          /\ twin' = SynthesizeStep(twin, 0, llm)
    /\ UNCHANGED <<search, planner, critic, synthesizer, scorer, memory>>

ObserverNext ==
    \/ ObservedExtractContext
    \/ ObservedMemoryRecall
    \/ ObservedPlan
    \/ ObservedSearch
    \/ ObservedCritiqueRound
    \/ ObservedGapReSearch
    \/ ObservedSynthesize

ObserverSpec == ObserverInit /\ [][ObserverNext]_vars

\* ------------------------------------------------------ ScoreSpec: one score
\* The four criteria scores that lines 50-60 of score combine, in hundredths
\* (citations as a fraction): the values the four helper methods return and
\* values between, 0.0 among them, which _score_length and _score_structure
\* themselves never return.
CriteriaScores ==
    [length    : {0, 20, 50, 60, 90, 100},
     structure : {0, 30, 45, 65, 100},
     citations : {Fraction(0, 1), Fraction(1, 3), Fraction(1, 2), Fraction(1, 1)},
     relevance : {0, 40, 50, 70, 100}]

\* The number of score calls made on one QualityScorer.
MaxScoreCalls == 2

\* Lines 29-31: a new QualityScorer has an empty scoring_history.
ScoreInit ==
    /\ scorer \in {[pc |-> "call", scores |-> s, out |-> <<>>,
                     scoring_history |-> <<>>] : s \in CriteriaScores}
    /\ search = Off /\ planner = Off /\ critic = Off /\ synthesizer = Off
    /\ pipeline = Off /\ memory = Off /\ twin = Off

\* Lines 50-63: the weighted sum, its rounding, pass and feedback; line 62
\* appends the result to self.scoring_history before it is returned.
ScoreReturn ==
    /\ scorer.pc = "call"
    /\ \E tie_up \in BOOLEAN :
          LET result == Combine(scorer.scores, tie_up)
          IN  scorer' = [scorer EXCEPT
                           !.pc = "returned",
                           !.out = result,
                           !.scoring_history = Append(@, result)]
    /\ UNCHANGED <<search, planner, critic, synthesizer, pipeline, memory, twin>>

\* The same scorer is called again (synthesis_agent.py lines 54 and 59 call
\* self.quality_scorer.score twice): only scoring_history is kept.
ScoreAgain ==
    /\ scorer.pc = "returned"
    /\ Len(scorer.scoring_history) < MaxScoreCalls
    /\ \E s \in {scorer.scores, [scorer.scores EXCEPT !.relevance = 100]} :
          scorer' = [scorer EXCEPT !.pc = "call", !.scores = s, !.out = <<>>]
    /\ UNCHANGED <<search, planner, critic, synthesizer, pipeline, memory, twin>>

ScoreNext == ScoreReturn \/ ScoreAgain

ScoreSpec == ScoreInit /\ [][ScoreNext]_vars

\* ------------------------------------- StructureSpec: one structure score
\* The number of lines of the texts that are scored.
MaxLines == 6

\* A text as the sequence of its lines.  The kinds of line: "# H", "**B**",
\* "- item", "1. item", "text" and the empty line.
LineKinds == {"head", "bold", "bullet", "num", "plain", "blank"}

\* The characters of "\n".join(lines) that matter for the count of line
\* breaks: one "x" for the content of a line that is not empty, and the "\n"
\* between two lines.
RECURSIVE JoinLines(_)
JoinLines(lines) ==
    IF lines = <<>> THEN <<>>
    ELSE (IF Head(lines) = "blank" THEN <<>> ELSE <<"x">>)
         \o (IF Len(lines) > 1 THEN <<"\n">> ELSE <<>>)
         \o JoinLines(Tail(lines))

\* Line 88: output.count("\n\n"), the occurrences counted from the left
\* without overlap.
RECURSIVE CountBlankBreaks(_)
CountBlankBreaks(chars) ==
    IF Len(chars) < 2 THEN 0
    ELSE IF chars[1] = "\n" /\ chars[2] = "\n"
    THEN 1 + CountBlankBreaks(SubSeq(chars, 3, Len(chars)))
    ELSE CountBlankBreaks(Tail(chars))

\* What _score_structure reads of a text (lines 84, 88, 92 and 96): a line
\* that starts with "#" or "**", two or more "\n\n", a bullet marker, and one
\* of "1." to "5." or "1)" to "5)".
TextReport(lines) ==
    Report(Cardinality({k \in DOMAIN lines : lines[k] # "blank"}),
           \E k \in DOMAIN lines : lines[k] \in {"head", "bold"},
           CountBlankBreaks(JoinLines(lines)) >= 2,
           \E k \in DOMAIN lines : lines[k] = "bullet",
           \E k \in DOMAIN lines : lines[k] = "num",
           {}, 0)

StructureInit ==
    /\ scorer \in {[pc |-> "call", lines |-> l, out |-> 0] :
                      l \in SeqsUpTo(LineKinds, MaxLines)}
    /\ search = Off /\ planner = Off /\ critic = Off /\ synthesizer = Off
    /\ pipeline = Off /\ memory = Off /\ twin = Off

\* Lines 79-99: _score_structure(output).
StructureReturn ==
    /\ scorer.pc = "call"
    /\ scorer' = [scorer EXCEPT !.pc = "returned",
                                !.out = _score_structure(TextReport(scorer.lines))]
    /\ UNCHANGED <<search, planner, critic, synthesizer, pipeline, memory, twin>>

StructureNext == StructureReturn

StructureSpec == StructureInit /\ [][StructureNext]_vars

\* -------------------------------------------- MemorySpec: PersistentMemory
\* The number of store calls of a run and the seconds of its clock.
MaxStores == 2
MaxClock == 2

\* The queries stored.
StoreQueries == {<<"q1">>, <<"q2">>}

\* A file that json.dump writes: open(path, "w") creates or truncates it, the
\* dump writes the items one after the other, and the file holds valid JSON
\* once the last of them is written (complete).
JsonFile(entries, complete) == [exists |-> TRUE, entries |-> entries, complete |-> complete]

NoFile == [exists |-> FALSE, entries |-> <<>>, complete |-> FALSE]

\* Lines 149-153: _load_index; json.load raises on a file that is not valid
\* JSON.
_load_index(file) ==
    IF ~file.exists THEN [raised |-> FALSE, index |-> <<>>]
    ELSE IF file.complete THEN [raised |-> FALSE, index |-> file.entries]
    ELSE [raised |-> TRUE, index |-> <<>>]

\* Lines 33-37: a PersistentMemory on an empty directory.
MemoryInit ==
    /\ memory = [pc |-> "idle", index |-> <<>>, memory_file |-> NoFile,
                 records |-> <<>>, clock |-> 1, entry_id |-> 0, query |-> <<>>,
                 before |-> <<>>, stores |-> 0]
    /\ search = Off /\ planner = Off /\ critic = Off /\ synthesizer = Off
    /\ pipeline = Off /\ scorer = Off /\ twin = Off

\* The clock reaches the next second between two calls.
Tick ==
    /\ memory.pc = "idle"
    /\ memory.clock < MaxClock
    /\ memory' = [memory EXCEPT !.clock = @ + 1]
    /\ UNCHANGED <<search, planner, critic, synthesizer, pipeline, scorer, twin>>

\* Lines 39-60: store is called; entry_id is the time to the second.
StoreCall ==
    /\ memory.pc = "idle"
    /\ memory.stores < MaxStores
    /\ \E q \in StoreQueries :
          memory' = [memory EXCEPT !.pc = "open_record", !.query = q,
                                   !.entry_id = memory.clock,
                                   !.before = memory.index]
    /\ UNCHANGED <<search, planner, critic, synthesizer, pipeline, scorer, twin>>

\* Lines 64-65: the record file is opened for writing.
OpenRecord ==
    /\ memory.pc = "open_record"
    /\ memory' = [memory EXCEPT
                    !.pc = "dump_record",
                    !.records = DictSet(@, memory.entry_id, JsonFile(<<>>, FALSE))]
    /\ UNCHANGED <<search, planner, critic, synthesizer, pipeline, scorer, twin>>

\* Lines 66-74: the record is written, then the entry is put into the index
\* in memory.
DumpRecord ==
    /\ memory.pc = "dump_record"
    /\ memory' = [memory EXCEPT
                    !.pc = "open_index",
                    !.records = DictSet(@, memory.entry_id,
                                        JsonFile(<<memory.query>>, TRUE)),
                    !.index = DictSet(@, memory.entry_id, memory.query)]
    /\ UNCHANGED <<search, planner, critic, synthesizer, pipeline, scorer, twin>>

\* Line 156: _save_index opens the index file for writing, which truncates it.
OpenIndex ==
    /\ memory.pc = "open_index"
    /\ memory' = [memory EXCEPT !.pc = "dump_index",
                                !.memory_file = JsonFile(<<>>, FALSE)]
    /\ UNCHANGED <<search, planner, critic, synthesizer, pipeline, scorer, twin>>

\* Line 157: json.dump writes the entries of the index one after the other.
DumpIndexEntry ==
    /\ memory.pc = "dump_index"
    /\ Len(memory.memory_file.entries) < Len(memory.index)
    /\ memory' = [memory EXCEPT
                    !.memory_file.entries =
                        Append(@, memory.index[Len(memory.memory_file.entries) + 1])]
    /\ UNCHANGED <<search, planner, critic, synthesizer, pipeline, scorer, twin>>

\* Lines 157 and 75-77: the dump ends, the file is closed, store returns.
StoreReturn ==
    /\ memory.pc = "dump_index"
    /\ Len(memory.memory_file.entries) = Len(memory.index)
    /\ memory' = [memory EXCEPT !.pc = "idle", !.memory_file.complete = TRUE,
                                !.stores = @ + 1]
    /\ UNCHANGED <<search, planner, critic, synthesizer, pipeline, scorer, twin>>

\* The process dies at some point of a store call; the files stay as they are.
Crash ==
    /\ memory.pc \in {"open_record", "dump_record", "open_index", "dump_index"}
    /\ memory' = [memory EXCEPT !.pc = "crashed"]
    /\ UNCHANGED <<search, planner, critic, synthesizer, pipeline, scorer, twin>>

\* Lines 33-37: a new process makes a PersistentMemory on the directory.
Restart ==
    /\ memory.pc = "crashed"
    /\ LET loaded == _load_index(memory.memory_file)
       IN  memory' = [memory EXCEPT
                        !.pc = IF loaded.raised THEN "load_failed" ELSE "idle",
                        !.index = loaded.index]
    /\ UNCHANGED <<search, planner, critic, synthesizer, pipeline, scorer, twin>>

MemoryNext ==
    \/ Tick
    \/ StoreCall
    \/ OpenRecord
    \/ DumpRecord
    \/ OpenIndex
    \/ DumpIndexEntry
    \/ StoreReturn
    \/ Crash
    \/ Restart

MemorySpec == MemoryInit /\ [][MemoryNext]_vars

\* ------------------- SharedMemorySpec: two PersistentMemory, one directory
\* Two pipeline instances (deep_research.py line 90 makes one
\* PersistentMemory each) on the same memory directory.  memory holds the
\* directory (the index file, the record files, the clock) and, per instance,
\* the position in __init__ and store, the index in memory and the locals of
\* store.
Instances == {1, 2}

\* The query instance i stores.
StoreQueryOf(i) == IF i = 1 THEN <<"q1">> ELSE <<"q2">>

NewInstance == [pc |-> "new", index |-> <<>>, entry_id |-> 0, query |-> <<>>]

\* The directory is empty at first.
SharedMemoryInit ==
    /\ memory = [pc |-> "shared", memory_file |-> NoFile, records |-> <<>>,
                 clock |-> 1, inst |-> [i \in Instances |-> NewInstance]]
    /\ search = Off /\ planner = Off /\ critic = Off /\ synthesizer = Off
    /\ pipeline = Off /\ scorer = Off /\ twin = Off

\* The clock reaches the next second.
SharedTick ==
    /\ memory.clock < MaxClock
    /\ memory' = [memory EXCEPT !.clock = @ + 1]
    /\ UNCHANGED <<search, planner, critic, synthesizer, pipeline, scorer, twin>>

\* Lines 33-37: __init__ of instance i reads the index file into self.index.
SharedLoad(i) ==
    /\ memory.inst[i].pc = "new"
    /\ LET loaded == _load_index(memory.memory_file)
       IN  memory' = [memory EXCEPT
                        !.inst[i].pc = IF loaded.raised THEN "load_failed" ELSE "idle",
                        !.inst[i].index = loaded.index]
    /\ UNCHANGED <<search, planner, critic, synthesizer, pipeline, scorer, twin>>

\* Lines 39-60: instance i calls store; entry_id is the time to the second.
SharedStoreCall(i) ==
    /\ memory.inst[i].pc = "idle"
    /\ memory' = [memory EXCEPT !.inst[i].pc = "open_record",
                                !.inst[i].query = StoreQueryOf(i),
                                !.inst[i].entry_id = memory.clock]
    /\ UNCHANGED <<search, planner, critic, synthesizer, pipeline, scorer, twin>>

\* Lines 64-65: the record file is opened for writing.
SharedOpenRecord(i) ==
    /\ memory.inst[i].pc = "open_record"
    /\ memory' = [memory EXCEPT
                    !.inst[i].pc = "dump_record",
                    !.records = DictSet(@, memory.inst[i].entry_id,
                                        JsonFile(<<>>, FALSE))]
    /\ UNCHANGED <<search, planner, critic, synthesizer, pipeline, scorer, twin>>

\* Lines 66-74: the record is written, then the entry is put into the
\* instance's own index.
SharedDumpRecord(i) ==
    /\ memory.inst[i].pc = "dump_record"
    /\ memory' = [memory EXCEPT
                    !.inst[i].pc = "open_index",
                    !.records = DictSet(@, memory.inst[i].entry_id,
                                        JsonFile(<<memory.inst[i].query>>, TRUE)),
                    !.inst[i].index = DictSet(@, memory.inst[i].entry_id,
                                              memory.inst[i].query)]
    /\ UNCHANGED <<search, planner, critic, synthesizer, pipeline, scorer, twin>>

\* Line 156: _save_index opens the index file for writing, which truncates it.
SharedOpenIndex(i) ==
    /\ memory.inst[i].pc = "open_index"
    /\ memory' = [memory EXCEPT !.inst[i].pc = "dump_index",
                                !.memory_file = JsonFile(<<>>, FALSE)]
    /\ UNCHANGED <<search, planner, critic, synthesizer, pipeline, scorer, twin>>

\* Line 157 and lines 75-77: json.dump writes the instance's index, the file
\* is closed and store returns.
SharedSaveIndex(i) ==
    /\ memory.inst[i].pc = "dump_index"
    /\ memory' = [memory EXCEPT !.inst[i].pc = "stored",
                                !.memory_file = JsonFile(memory.inst[i].index, TRUE)]
    /\ UNCHANGED <<search, planner, critic, synthesizer, pipeline, scorer, twin>>

SharedMemoryNext ==
    \/ SharedTick
    \/ \E i \in Instances :
          \/ SharedLoad(i)
          \/ SharedStoreCall(i)
          \/ SharedOpenRecord(i)
          \/ SharedDumpRecord(i)
          \/ SharedOpenIndex(i)
          \/ SharedSaveIndex(i)

SharedMemorySpec == SharedMemoryInit /\ [][SharedMemoryNext]_vars

\* ---------------------------------------------------- claims on the search
\* What is left of a search: 0 once it has returned, and less after every step.
SearchMeasure(s) ==
    IF s.pc = "returned" THEN 0
    ELSE IF ~s.st.running THEN 1
    ELSE 2 + s.max_iterations - s.st.iteration

\* C3: for every max_iterations = n, search_for_subquestion terminates (until
\* it has returned a step is possible, and every step brings the return
\* nearer), makes at most n primary retrieval (arXiv) calls, and the outcome it
\* returns has an iteration count of at most n.
C3_BoundedIteration ==
    /\ [](/\ CountCalls(search.st.calls, "arxiv") <= search.max_iterations
          /\ search.st.results.iterations <= search.max_iterations
          /\ SearchMeasure(search) >= 0
          /\ (search.pc # "returned" => ENABLED SearchNext))
    /\ [][SearchMeasure(search') < SearchMeasure(search)]_vars

\* C3's case: a search that used every iteration it was allowed has returned.
C3_Witness ==
    /\ search.pc = "returned"
    /\ search.max_iterations = DefaultMaxIterations
    /\ CountCalls(search.st.calls, "arxiv") = DefaultMaxIterations
    /\ search.st.results.iterations = DefaultMaxIterations

\* C4: at every point of a search, and in the outcome it returns, no two
\* papers of the evidence list share an id.
C4_DedupInvariant ==
    LET papers == search.st.results.papers
    IN  \A i, j \in DOMAIN papers :
           i # j => papers[i].arxiv_id # papers[j].arxiv_id

\* The evidence count before trace position k (that of the last merge before).
CountBefore(calls, k) ==
    LET prev == {m \in 1..(k - 1) : calls[m].op = "merge"}
    IN  IF prev = {} THEN 0
        ELSE calls[CHOOSE m \in prev : \A x \in prev : x <= m].arg

\* C4's case: the search has returned, and a later iteration's batch brought a
\* new paper together with a duplicate that was skipped (a verified batch
\* holds at least 2 papers, and the merge added exactly one).
C4_Witness ==
    LET calls == search.st.calls
    IN  /\ search.pc = "returned"
        /\ \E k \in DOMAIN calls :
              /\ calls[k].op = "merge"
              /\ CountBefore(calls, k) > 0
              /\ calls[k].arg = CountBefore(calls, k) + 1

\* C6: once a merge leaves 5 or more papers in the evidence list, the search
\* makes no further retrieval, web-search or rewriter call: that merge is the
\* last entry of the trace and the loop has ended.
C6_EarlyStop ==
    LET calls == search.st.calls
    IN  \A k \in DOMAIN calls :
           (calls[k].op = "merge" /\ calls[k].arg >= 5)
              => (k = Len(calls) /\ ~search.st.running)

\* C6's case: 6 deduplicated papers after iteration 2 of 3; the search
\* returned without running iteration 3.
C6_Witness ==
    /\ search.pc = "returned"
    /\ search.max_iterations = 3
    /\ search.st.results.iterations = 2
    /\ Len(search.st.results.papers) = 6

\* ---------------------------------------------------- claims on the critic
\* C5: in every CritiqueResult that critique returns, needs_more_search is
\* (quality_score < 0.6) or (len(gaps) > 0) or (len(tool_issues) > 2); so it
\* is true whenever quality_score < 0.6, and false whenever quality_score >=
\* 0.6, gaps is empty and there are at most 2 tool issues.
C5_DecisionRule ==
    critic.pc = "returned" =>
        LET r     == critic.out
            low   == r.quality_score.num * 10 < 6 * r.quality_score.den
            ngaps == Len(r.gaps.items)
            nissues == Len(r.tool_issues)
        IN  /\ r.needs_more_search <=> (low \/ ngaps > 0 \/ nissues > 2)
            /\ low => r.needs_more_search
            /\ (~low /\ ngaps = 0 /\ nissues <= 2) => ~r.needs_more_search

\* C5's case: a returned critique at the edge of all three conditions (score
\* exactly 0.6, no gaps, exactly 2 tool issues), which stops the search.
C5_Witness ==
    /\ critic.pc = "returned"
    /\ critic.out.quality_score = Fraction(60, 100)
    /\ critic.out.gaps = [kind |-> "list", items |-> <<>>]
    /\ Len(critic.out.tool_issues) = 2
    /\ ~critic.out.needs_more_search

\* --------------------------------------------------- claims on the planner
\* The planning call yielded no parsable sub-questions: the result is absent
\* (null), error-tagged, not a mapping, a mapping without sub_questions, or a
\* mapping whose sub_questions is an empty list.
NoParsableSubQuestions(result) ==
    \/ result.kind \in {"null", "error", "list", "string", "number"}
    \/ result.kind = "dict" /\ ~result.has_sub_questions
    \/ /\ result.kind = "dict" /\ result.has_sub_questions
       /\ result.sub_questions = [kind |-> "list", items |-> <<>>]

\* C7: if the planning call yields no parsable sub-questions, create_plan
\* returns (it does not raise) exactly 3 sub-questions, of evidence kinds
\* survey, empirical, theoretical in this order, the first with the original
\* query as its question.
C7_FallbackPlan ==
    (planner.pc # "call" /\ NoParsableSubQuestions(planner.result)) =>
        /\ planner.pc = "returned"
        /\ LET sqs == planner.out.plan.sub_questions
           IN  /\ Len(sqs) = 3
               /\ sqs[1].evidence_type = "survey"
               /\ sqs[2].evidence_type = "empirical"
               /\ sqs[3].evidence_type = "theoretical"
               /\ sqs[1].question = planner.query

\* C7's case: create_plan has returned on an error-tagged result.
C7_Witness ==
    /\ planner.pc = "returned"
    /\ planner.result.kind = "error"
    /\ planner.query = <<"q">>
    /\ Len(planner.out.plan.sub_questions) = 3

\* ------------------------------------------------ claims on the synthesizer
\* C8: synthesize makes an improvement pass if and only if the first quality
\* report has pass = false, and then exactly one: the report is generated at
\* most twice and scored at most twice at every point of a call, and a call
\* that has returned either generated and scored once, the score passing, or
\* generated, scored (failing), improved and scored once more, whatever the
\* second score.
C8_SingleImprovement ==
    LET calls == synthesizer.calls
        ops   == [k \in DOMAIN calls |-> calls[k].op]
    IN  /\ CountCalls(calls, "generate") + CountCalls(calls, "improve") <= 2
        /\ CountCalls(calls, "score") <= 2
        /\ synthesizer.pc = "returned" =>
              \/ /\ ops = <<"generate", "score", "store">>
                 /\ calls[2].arg = 1
              \/ /\ ops = <<"generate", "score", "improve", "score", "store">>
                 /\ calls[2].arg = 0

\* C8's case: the first score failed, the improved report failed too, and
\* synthesize returned without a third generation or score.
C8_Witness ==
    /\ synthesizer.pc = "returned"
    /\ CountCalls(synthesizer.calls, "improve") = 1
    /\ ~synthesizer.out.quality.pass

\* --------------------------------------------------- claims on the pipeline
\* A run of research() has ended: it returned or an exception left it.
Ended == pipeline.pc \in {"returned", "raised"}

\* A run with a query text and without an observer callback.
PlainRun == ~pipeline.query.none /\ pipeline.query.text # <<>> /\ ~pipeline.callback

\* The critic is never invoked more than max_critique_rounds times, and a run
\* that reaches synthesis has invoked it.
CritiqueRoundsBounded ==
    /\ CountCalls(pipeline.calls, "critique") <= max_critique_rounds
    /\ CountCalls(pipeline.calls, "synthesize") > 0 =>
          CountCalls(pipeline.calls, "critique") >= 1

\* C1: in every run of research(), whatever the critique results, the Critic
\* is invoked at least once and at most 2 times; stated for the runs with a
\* query text and no callback: when such a run has ended, the number of
\* critique calls is 1 or 2.
C1_CriticOnceOrTwice ==
    PlainRun /\ Ended => CountCalls(pipeline.calls, "critique") \in 1..2

\* C2: in every run of research(), synthesize is called exactly once, after
\* the last critique round and after every gap re-search, however the
\* critique loop ended; stated for the runs with a query text and no callback
\* that reached the critique loop: when such a run has ended, its trace holds
\* exactly one synthesize call and that call is the last of the trace.
C2_SynthesizeOnceAtEnd ==
    PlainRun /\ Ended /\ CountCalls(pipeline.calls, "critique") >= 1 =>
        /\ CountCalls(pipeline.calls, "synthesize") = 1
        /\ pipeline.calls[Len(pipeline.calls)].op = "synthesize"

\* C9: a gap re-search only adds entries to the outcome mapping: each gap is
\* stored under a key that is not the key of an existing entry, and every
\* entry present before the re-search is present and unchanged after it;
\* stated for the runs with a query text and no callback.
C9_GapReSearchOnlyAdds ==
    [][PlainRun /\ pipeline.pc = "gaps" =>
          /\ \A k \in DOMAIN FirstN(pipeline.critique.gaps.items, GapLimit) :
                ~DictHas(pipeline.search_results, pipeline.critique.gaps.items[k])
          /\ \A k \in DOMAIN pipeline.search_results :
                /\ k \in DOMAIN pipeline'.search_results
                /\ pipeline'.search_results[k] = pipeline.search_results[k]]_vars

\* C10: research() called with a missing or empty query raises before any
\* phase starts: nothing is extracted, recalled, planned, searched or stored,
\* no step is logged and no result is returned.
C10_RejectsMissingQuery ==
    pipeline.query.none \/ pipeline.query.text = <<>> =>
        /\ pipeline.calls = <<>>
        /\ pipeline.log = <<>>
        /\ pipeline.pc # "returned"

\* C11: a failure of the observer callback at any notification point is
\* isolated from the core: research() runs on and returns what it returns
\* without the failure, so no run (stated for the runs with a query text) is
\* ever ended by the callback's exception.
C11_CallbackIsolated ==
    ~pipeline.query.none /\ pipeline.query.text # <<>> =>
        ~(pipeline.pc = "raised" /\ pipeline.error = "callback")

\* C12: critique never raises and always returns a CritiqueResult, whatever
\* the judgment call returns (absent, error-tagged, not a mapping, a mapping
\* without score, with a score that is not numeric, with gaps that is no list).
C12_CritiqueNeverRaises == critic.pc # "raised"

\* C13: create_plan never raises and always returns a plan with at least one
\* sub-question, whatever the planning call returns, a mapping whose
\* sub_questions is not a list of mappings included.
C13_CreatePlanNeverRaises ==
    /\ planner.pc # "raised"
    /\ planner.pc = "returned" => Len(planner.out.plan.sub_questions) >= 1

\* C14: every CritiqueResult that critique returns has quality_score within
\* [0,1], from the model's judgment or from the coverage fallback.
C14_ScoreInUnitInterval ==
    critic.pc = "returned" =>
        /\ critic.out.quality_score.num >= 0
        /\ critic.out.quality_score.num <= critic.out.quality_score.den

\* The judgment is malformed or absent: the result of the judgment call is
\* null, error-tagged, not a mapping, or a mapping without a score.
JudgmentAbsent(result) == ~(result.kind = "dict" /\ result.has_score)

\* The entry of the mapping for question q has at least one paper.
HasEvidence(search_results, q) ==
    \E k \in DOMAIN search_results :
        search_results[k].key = q /\ Len(search_results[k].value.papers) >= 1

\* C15: when the structured judgment is malformed or absent, critique returns
\* quality_score = (number of plan sub-questions whose outcome has at least
\* one evidence item) / (number of plan sub-questions), and gaps = the plan
\* sub-questions whose outcome has no evidence or is missing, in plan order.
C15_CoverageFallback ==
    (critic.pc # "call" /\ JudgmentAbsent(critic.result)) =>
        /\ critic.pc = "returned"
        /\ LET sqs == critic.research_plan.sub_questions
               sr  == critic.search_results
               qs  == [k \in DOMAIN sqs |-> sqs[k].question]
               hit(q) == HasEvidence(sr, q)
               out == critic.out
           IN  /\ out.quality_score.num * Len(sqs) =
                     Cardinality({k \in DOMAIN sqs : hit(qs[k])}) * out.quality_score.den
               /\ out.gaps.kind = "list"
               /\ out.gaps.items = SelectSeq(qs, LAMBDA q : ~hit(q))

\* C15's case: an error-tagged judgment on a plan of A, B, C where A has a
\* paper, B has none and C has no entry: score 1/3 and gaps B, C.
C15_Witness ==
    /\ critic.pc = "returned"
    /\ critic.result.kind = "error"
    /\ critic.out.quality_score = Fraction(1, 3)
    /\ critic.out.gaps.items = <<TB, TC>>
    /\ DictHas(critic.search_results, TB)

\* The retrieval result is empty for every sub-question: every sub-question of
\* the plan has an outcome and every outcome of the mapping has zero evidence.
AllEmpty(research_plan, search_results) ==
    /\ \A k \in DOMAIN research_plan.sub_questions :
          DictHas(search_results, research_plan.sub_questions[k].question)
    /\ \A k \in DOMAIN search_results : search_results[k].value.papers = <<>>

C17_WeightedOverall ==
    scorer.pc = "returned" =>
        LET s   == scorer.scores
            c   == s.citations
            out == scorer.out
            \* 10000 * den * (weighted sum) and 10000 * den * overall
            sum == (15 * s.length + 20 * s.structure + 35 * s.relevance) * c.den
                   + 3000 * c.num
            ovr == 100 * c.den * out.overall
        IN  /\ ovr - sum <= 50 * c.den /\ sum - ovr <= 50 * c.den
            /\ (s.length = 100 /\ s.structure = 100 /\ c.num = c.den
                  /\ s.relevance = 100) => out.overall = 100
            /\ (s.length = 0 /\ s.structure = 0 /\ c.num = 0
                  /\ s.relevance = 0) => out.overall = 0
            /\ out.overall >= 0 /\ out.overall <= 100
            /\ out.pass <=> out.overall >= 60

\* C17's case: score has returned for four criteria at 1.0, with overall 1.0
\* and pass true.
C17_Witness ==
    /\ scorer.pc = "returned"
    /\ scorer.scores.length = 100 /\ scorer.scores.structure = 100
    /\ scorer.scores.citations = Fraction(1, 1) /\ scorer.scores.relevance = 100
    /\ scorer.out.overall = 100
    /\ scorer.out.pass

\* ----------------------------------------------------- claims on the memory
\* C20: a store call writes the record first and then updates the index, and
\* a crash at any point of the call leaves the persisted index uncorrupted:
\* the index file holds the complete index from before the call or the
\* complete index with the new entry.
C20_IndexNeverCorrupt ==
    /\ memory.pc \in {"open_index", "dump_index"} =>
          /\ DictHas(memory.records, memory.entry_id)
          /\ DictGet(memory.records, memory.entry_id).complete
    /\ memory.pc = "crashed" =>
          \/ ~memory.memory_file.exists /\ memory.before = <<>>
          \/ /\ memory.memory_file.exists
             /\ memory.memory_file.complete
             /\ memory.memory_file.entries \in {memory.before, memory.index}

\* C18: search_all returns a mapping with exactly one outcome per
\* sub-question of the plan, as many entries as the plan has sub-questions,
\* and each sub-question's entry is what its own search_for_subquestion call
\* returned.
C18_OneOutcomePerSubQuestion ==
    (PlainRun /\ pipeline.pc = "critique" /\ pipeline.round_num = 0) =>
        LET sqs == pipeline.plan.sub_questions
        IN  /\ Len(pipeline.search_results) = Len(sqs)
            /\ \A k \in DOMAIN sqs :
                  /\ DictHas(pipeline.search_results, sqs[k].question)
                  /\ DictGet(pipeline.search_results, sqs[k].question)
                        = pipeline.searched[k]

\* C19: synthesize calls the index store exactly once, after the final
\* scoring; the report it persists is the report it returns, the improved one
\* when an improvement pass ran and the first otherwise; the returned quality
\* report is the score of that report, and the persisted quality score is the
\* returned overall.
C19_StoresFinalReport ==
    LET calls == synthesizer.calls
        n     == Len(calls)
        out   == synthesizer.out
        all_papers == AllPapers(synthesizer.search_results)
        written == {k \in DOMAIN calls : calls[k].op \in {"generate", "improve"}}
        final == CHOOSE k \in written : \A j \in written : j <= k
    IN  /\ CountCalls(calls, "store") <= 1
        /\ \A k \in DOMAIN calls : calls[k].op = "store" => k = n
        /\ synthesizer.pc = "returned" =>
              /\ CountCalls(calls, "store") = 1
              /\ calls[n - 1].op = "score"
              /\ out.report = calls[final].arg
              /\ calls[final].op = "improve" <=> CountCalls(calls, "improve") = 1
              /\ synthesizer.stored.findings = out.report
              /\ synthesizer.stored.metadata.quality_score = out.quality.overall
              /\ out.quality.scores.length = _score_length(out.report)
              /\ out.quality.scores.structure = _score_structure(out.report)
              /\ out.quality.scores.citations = _score_citations(out.report, all_papers)
              /\ out.quality.pass = (calls[n - 1].arg = 1)

\* C19's case: an improvement pass replaced the first report by a different
\* one, which was scored and stored.
C19_Witness ==
    /\ synthesizer.pc = "returned"
    /\ CountCalls(synthesizer.calls, "improve") = 1
    /\ synthesizer.calls[1].arg # synthesizer.out.report
    /\ synthesizer.stored.findings = synthesizer.calls[3].arg
    /\ synthesizer.out.quality.overall > 0

\* C21: the index store is append-only: the record id of every store call
\* differs from the ids of all entries already in the index, so that no
\* record and no index entry is replaced by a later store call, also for two
\* calls within the same second of the clock.
C21_AppendOnly ==
    memory.pc = "open_record" => ~DictHas(memory.before, memory.entry_id)

\* ----------------------------------------------- claims on the observation
\* The name of the step a call of a collaborator belongs to.
StepNameOf(op) ==
    CASE op \in {"parse_local", "extract"} -> "Input Processing"
      [] op = "recall"         -> "Memory Recall"
      [] op = "create_plan"    -> "Research Planning"
      [] op = "search_all"     -> "Iterative Search"
      [] op = "critique"       -> "Self-Critique"
      [] op = "search_for_gap" -> "Gap Re-Search"
      [] op = "synthesize"     -> "Synthesis + Memory"

\* The step names of the entries of the log.
LogNames(log) == {Head(log[k].name) : k \in DOMAIN log}

\* C22: every phase of research() that ran (context extraction, memory
\* recall, planning, search, each critique round, each gap re-search,
\* synthesis) has appended an entry to the step log and, when an observer
\* callback is supplied, has called the callback.
C22_EveryPhaseLoggedAndNotified ==
    (pipeline.pc = "returned" /\ pipeline.query.text # <<>>) =>
        \A k \in DOMAIN pipeline.calls :
            LET step_name == StepNameOf(pipeline.calls[k].op)
            IN  /\ step_name \in LogNames(pipeline.log)
                /\ pipeline.callback => step_name \in Range(pipeline.notified)

\* C23: the step log and the observer callback are not control inputs: on
\* the same query and the same answers of the collaborators, the run with an
\* observer callback and the run without one are at the same step, have made
\* the same sequence of planner, searcher, critic, synthesizer and store
\* calls, and hold and return the same plan, outcomes, critique and report.
C23_ObserverNotAControlInput ==
    /\ pipeline.pc = twin.pc
    /\ pipeline.calls = twin.calls
    /\ pipeline.error = twin.error
    /\ pipeline.plan = twin.plan
    /\ pipeline.search_results = twin.search_results
    /\ pipeline.critique = twin.critique
    /\ pipeline.out = twin.out

\* C23's case: both runs have returned after a gap re-search, and the
\* callback of the observed run was called.
C23_Witness ==
    /\ BothAt("returned")
    /\ CountCalls(pipeline.calls, "search_for_gap") > 0
    /\ Len(pipeline.notified) > 0
    /\ twin.notified = <<>>
    /\ pipeline.out.report = twin.out.report

\* C24: if a document or link is supplied and the extractor reports failure,
\* the extracted context is empty and the run goes on to memory recall; what
\* ends such a run before its return is never the extraction, and the result
\* it returns is complete, after recall, planning, search, critique and
\* synthesis in this order.
C24_ExtractionFailureTolerated ==
    (pipeline.extracted = "failed" /\ (pipeline.pc = "raised" => pipeline.error # "callback")) =>
        /\ pipeline.user_context = <<>>
        /\ pipeline.pc # "start"
        /\ pipeline.pc # "recall" => CountCalls(pipeline.calls, "recall") = 1
        /\ pipeline.pc = "raised" =>
              pipeline.error \in {"recall", "create_plan", "critique", "len"}
        /\ pipeline.pc = "returned" =>
              LET ops == [k \in DOMAIN pipeline.calls |-> pipeline.calls[k].op]
                  n   == Len(ops)
              IN  /\ FirstN(ops, 5) = <<IF pipeline.source = "paper"
                                        THEN "parse_local" ELSE "extract",
                                        "recall", "create_plan", "search_all",
                                        "critique">>
                  /\ ops[n] = "synthesize"
                  /\ pipeline.out.user_context = <<>>
                  /\ pipeline.out.plan = pipeline.plan
                  /\ pipeline.out.critique = pipeline.critique
                  /\ pipeline.out.search_results = pipeline.search_results

\* C24's case: a run with a paper whose extraction failed has returned a
\* report.
C24_Witness ==
    /\ pipeline.pc = "returned"
    /\ pipeline.source = "paper"
    /\ pipeline.extracted = "failed"
    /\ pipeline.out.user_context = <<>>
    /\ Len(pipeline.out.plan.sub_questions) > 0

\* ------------------------------------------- claims on the gap re-search
\* The positions of the calls of op in a trace.
CallsOf(calls, op) == {k \in DOMAIN calls : calls[k].op = op}

\* C27: in every run of research(), search_for_gap is called at most 3 times
\* in total: only after the first critique round and before the second, only
\* when the first round has needs_more_search true, once per gap for the
\* first 3 gaps in the critique's order, and never after the second round.
C27_GapSearchBounded ==
    LET calls     == pipeline.calls
        gap_calls == CallsOf(calls, "search_for_gap")
        critiques == CallsOf(calls, "critique")
    IN  /\ Cardinality(gap_calls) <= 3
        /\ pipeline.round_num <= 1
        /\ \A g \in gap_calls :
              /\ \E c \in critiques : c < g /\ calls[c].arg = 0
              /\ \A c \in critiques : calls[c].arg = 1 => g < c
              /\ \A k \in g..Len(calls) : calls[k].op = "critique" => calls[k].arg = 1
        /\ (pipeline.pc = "critique" /\ pipeline.round_num = 1) =>
              /\ pipeline.critique.needs_more_search
              /\ Cardinality(gap_calls) = Min(Len(pipeline.critique.gaps.items), 3)
              /\ \A k \in 1..Cardinality(gap_calls) :
                    LET g == Len(calls) - Cardinality(gap_calls) + k
                    IN  /\ g \in gap_calls
                        /\ calls[g].arg = pipeline.critique.gaps.items[k]
        /\ (pipeline.pc # "raised" /\ pipeline.round_num = 0) => gap_calls = {}

\* C27's case: the first round returned 4 gaps, 3 of them were searched
\* again, and the run returned after the second round.
C27_Witness ==
    /\ pipeline.pc = "returned"
    /\ CountCalls(pipeline.calls, "critique") = 2
    /\ CountCalls(pipeline.calls, "search_for_gap") = 3

\* ------------------------------------------ more claims on the search
\* C28: when the verification of an iteration's primary results fails, no
\* evidence of that iteration is added to the outcome; the rewriter is asked
\* for a replacement query if and only if another iteration remains, and the
\* replacement is the query of the next iteration; on the last iteration no
\* rewriter call is made and the loop ends.
C28_FailedVerification ==
    [][LET st  == search.st
           st2 == search'.st
           new == [k \in 1..(Len(st2.calls) - Len(st.calls)) |->
                      st2.calls[Len(st.calls) + k].op]
           more == st.iteration < search.max_iterations - 1
       IN  (search.pc = "loop" /\ search'.pc = "loop" /\ st.running) =>
              /\ st2.results.queries_used
                    = Append(st.results.queries_used, st.search_query)
              /\ ~st2.verification.valid =>
                    /\ st2.results.papers = st.results.papers
                    /\ st2.seen_ids = st.seen_ids
                    /\ more => /\ new = <<"arxiv", "web", "verify", "rewrite">>
                               /\ st2.search_query \in RewriteQueries
                               /\ st2.running
                    /\ ~more => /\ new = <<"arxiv", "web", "verify">>
                                /\ st2.search_query = st.search_query
                                /\ ~st2.running]_vars

\* C28's case: the first iteration failed its verification and the second
\* ran on the rewriter's query; the last iteration failed too, and the search
\* returned without evidence.
C28_Witness ==
    /\ search.pc = "returned"
    /\ search.max_iterations = 3
    /\ search.st.results.iterations = 3
    /\ ~search.st.verification.valid
    /\ search.st.results.papers = <<>>
    /\ search.st.results.queries_used[2] \in RewriteQueries
    /\ CountCalls(search.st.calls, "rewrite") = 2

\* What the caller and the loop see of a search apart from the web results:
\* the evidence, the verification outcome, the queries tried, the iteration
\* count, the stop decision and the calls made.
SearchControl(st) ==
    [papers       |-> st.results.papers,
     seen_ids     |-> st.seen_ids,
     verification |-> st.verification,
     queries_used |-> st.results.queries_used,
     iterations   |-> st.results.iterations,
     search_query |-> st.search_query,
     iteration    |-> st.iteration,
     running      |-> st.running,
     calls        |-> st.calls]

\* The web search fails.
WebFailure == [raised |-> TRUE, hits |-> <<>>]

\* C25: the supplementary web search is never a control input of
\* search_for_subquestion: at every point of a search, whatever the web
\* search has returned so far and whether it now fails, returns nothing or
\* returns results, the next iteration leaves the same evidence list,
\* verification outcome, queries, iteration count and stop decision as it
\* does when the web search has failed in every iteration.
C25_WebSearchNotAControlInput ==
    (search.pc = "loop" /\ search.st.running) =>
        LET st      == search.st
            without == [st EXCEPT !.results.web_results = <<>>]
        IN  \A resp \in SearchResponses :
               SearchControl(search_iteration(st, search.max_iterations, resp))
                 = SearchControl(search_iteration(without, search.max_iterations,
                                     [resp EXCEPT !.web = WebFailure]))

\* C25's case: a search of two or more iterations has returned with web
\* results and with evidence.
C25_Witness ==
    /\ search.pc = "returned"
    /\ search.st.results.iterations >= 2
    /\ Len(search.st.results.web_results) = 2
    /\ Len(search.st.results.papers) >= 2

\* The calls of the rewriter in a gap search: the one of search_for_gap and
\* those of the search loop.
RewriterCalls(s) ==
    s.rewrites + CountCalls(s.st.calls, "rewrite") + CountCalls(s.st.calls, "refine")

\* C29: each search_for_gap call invokes the rewriter exactly once and makes
\* at most 2 primary retrieval calls.
C29_OneRewriterCall ==
    search.pc = "returned" =>
        /\ RewriterCalls(search) = 1
        /\ CountCalls(search.st.calls, "arxiv") <= 2

\* C29 as the code has it: search_for_gap asks the rewriter once before the
\* first retrieval and the loop asks it at most once more, between the two
\* iterations; there are at most 2 primary retrieval calls.
C29_GapSearchBounded ==
    search.pc # "gap_call" =>
        LET calls == search.st.calls
        IN  /\ search.rewrites = 1
            /\ search.max_iterations = 2
            /\ CountCalls(calls, "arxiv") <= 2
            /\ CountCalls(calls, "rewrite") + CountCalls(calls, "refine") <= 1
            /\ \A k \in DOMAIN calls :
                  calls[k].op \in {"rewrite", "refine"} =>
                     /\ calls[k].arg = 0
                     /\ \E j \in 1..(k - 1) : calls[j] = Call("arxiv", 0)
            /\ search.pc = "returned" =>
                  /\ RewriterCalls(search) \in {1, 2}
                  /\ RewriterCalls(search) = 2 <=> CountCalls(calls, "arxiv") = 2
            /\ search.st.results.queries_used # <<>> =>
                  search.st.results.queries_used[1] \in RewriteQueries

\* C29's case: a gap search has returned after 2 retrievals, the second on
\* a query that the loop got from the rewriter.
C29_Witness ==
    /\ search.pc = "returned"
    /\ search.rewrites = 1
    /\ CountCalls(search.st.calls, "arxiv") = 2
    /\ RewriterCalls(search) = 2
    /\ search.sub_question.question = TG

\* ------------------------------------------ claims on the structure score
\* The lines of a text that are headings.
Headings(lines) == {k \in DOMAIN lines : lines[k] \in {"head", "bold"}}

\* The paragraphs of a text: its blocks of lines that are not empty, each
\* named by its first line.
Paragraphs(lines) ==
    {k \in DOMAIN lines :
        lines[k] # "blank" /\ (k = 1 \/ lines[k - 1] = "blank")}

\* The empty lines between two lines of a text.
InnerBlankLines(lines) ==
    {k \in DOMAIN lines : lines[k] = "blank" /\ 1 < k /\ k < Len(lines)}

HasKind(lines, kind) == \E k \in DOMAIN lines : lines[k] = kind

Bonus(cond, points) == IF cond THEN points ELSE 0

\* C26: the structure score starts at 0.3 and adds 0.2 for a heading or
\* emphasis line, 0.2 for at least two blank-line-separated paragraphs, 0.15
\* for bullet markers and 0.15 for numbered-list markers, capped at 1.0; a
\* report with two headings, two blank-line paragraphs and a bullet list
\* scores exactly 1.0.  The paragraphs are taken as the code counts them, by
\* two blank line breaks.
C26_StructureScore ==
    scorer.pc = "returned" =>
        LET lines  == scorer.lines
            breaks == CountBlankBreaks(JoinLines(lines))
        IN  /\ scorer.out = Min(30 + Bonus(Headings(lines) # {}, 20)
                                   + Bonus(breaks >= 2, 20)
                                   + Bonus(HasKind(lines, "bullet"), 15)
                                   + Bonus(HasKind(lines, "num"), 15), 100)
            /\ (/\ Cardinality(Headings(lines)) >= 2
                /\ Cardinality(Paragraphs(lines)) >= 2
                /\ breaks >= 2
                /\ HasKind(lines, "bullet")) => scorer.out = 100

\* C26 as the code has it: the 0.2 for paragraphs needs two blank line
\* breaks, which a text without two empty lines in a row has exactly when it
\* has two empty lines inside; the score is 1.0 exactly when all four markers
\* are there, and a report with two headings, paragraphs and a bullet list
\* but no numbered item scores 0.85 with two blank line breaks and 0.65 with
\* fewer.
C26_StructureScoreByMarkers ==
    scorer.pc = "returned" =>
        LET lines  == scorer.lines
            breaks == CountBlankBreaks(JoinLines(lines))
            single == \A k \in 1..(Len(lines) - 1) :
                         ~(lines[k] = "blank" /\ lines[k + 1] = "blank")
            all    == /\ Headings(lines) # {} /\ breaks >= 2
                      /\ HasKind(lines, "bullet") /\ HasKind(lines, "num")
        IN  /\ scorer.out = 30 + Bonus(Headings(lines) # {}, 20)
                               + Bonus(breaks >= 2, 20)
                               + Bonus(HasKind(lines, "bullet"), 15)
                               + Bonus(HasKind(lines, "num"), 15)
            /\ single => breaks = Cardinality(InnerBlankLines(lines))
            /\ scorer.out \in 30..100
            /\ scorer.out = 100 <=> all
            /\ (/\ Cardinality(Headings(lines)) >= 2
                /\ Cardinality(Paragraphs(lines)) >= 2
                /\ HasKind(lines, "bullet")
                /\ ~HasKind(lines, "num")) =>
                   scorer.out = IF breaks >= 2 THEN 85 ELSE 65

\* C26's case: a text with two headings, a paragraph after each, two empty
\* lines between and a bullet has been scored 0.85.
C26_Witness ==
    /\ scorer.pc = "returned"
    /\ scorer.lines = <<"head", "plain", "blank", "head", "blank", "bullet">>
    /\ scorer.out = 85

\* ---------------------------------------- claims on the tool-output check
\* The issues of one kind that name one entry of the outcome mapping.
IssuesAbout(issues, kind, key) ==
    {i \in DOMAIN issues : issues[i] = [kind |-> kind, sub_q |-> key]}

\* C30: the tool-output check yields, for each entry of the outcome mapping,
\* exactly one "no evidence" issue if the outcome has zero items, and then no
\* abstract issue; otherwise exactly one "many empty abstracts" issue if and
\* only if strictly more than half of its items lack an abstract longer than
\* 20 characters; and no issue otherwise.
C30_ToolOutputCheck ==
    critic.pc = "returned" =>
        LET issues == critic.out.tool_issues
            sr     == critic.search_results
        IN  /\ \A k \in DOMAIN sr :
                  LET papers  == sr[k].value.papers
                      lacking == Cardinality({j \in DOMAIN papers :
                                                 papers[j].abstract <= 20})
                      none    == Cardinality(IssuesAbout(issues, "No papers found",
                                                         sr[k].key))
                      many    == Cardinality(IssuesAbout(issues, "Many empty abstracts",
                                                         sr[k].key))
                  IN  /\ Len(papers) = 0 => none = 1 /\ many = 0
                      /\ (Len(papers) > 0 /\ 2 * lacking > Len(papers)) =>
                            none = 0 /\ many = 1
                      /\ (Len(papers) > 0 /\ 2 * lacking <= Len(papers)) =>
                            none = 0 /\ many = 0
            /\ \A i \in DOMAIN issues : DictHas(sr, issues[i].sub_q)

\* C30's case: a mapping with an outcome without evidence, one whose only
\* paper has an abstract of exactly 20 characters, and one with a usable
\* abstract; the check returned the two issues.
C30_Witness ==
    /\ critic.pc = "returned"
    /\ Len(critic.search_results) = 3
    /\ critic.search_results[1].value.papers = <<>>
    /\ critic.search_results[2].value.papers = <<Paper(5)>>
    /\ critic.search_results[3].value.papers = <<Paper(6)>>
    /\ critic.out.tool_issues = <<[kind |-> "No papers found", sub_q |-> TA],
                                  [kind |-> "Many empty abstracts", sub_q |-> TB]>>

\* ------------------------------------------------------------------- C31
\* The questions that have a section in the digest synthesis builds from the
\* returned plan and outcome mapping.
DigestQuestions(out) ==
    LET sections == Context(out.plan, out.search_results, out.user_context).sections
    IN  {sections[k].question : k \in DOMAIN sections}

\* C31: when research() returns, every entry of the outcome mapping, the
\* entries a gap re-search stored under a gap key included, has its own
\* section in the digest the report was generated from.
C31_EveryEntryInDigest ==
    pipeline.pc = "returned" =>
        DictKeys(pipeline.out.search_results) \subseteq DigestQuestions(pipeline.out)

\* ------------------------------------------------------------------- C32
\* C32: a call of a component (here the Scorer) leaves the component's own
\* state as it was: nothing is kept from one call to the next.
C32_ScorerKeepsNoState ==
    [][scorer'.scoring_history = scorer.scoring_history]_vars

\* ------------------------------------------------------------------- C33
\* The step log of a run without gap re-search, and of a run with one.
LogOfFourSteps ==
    <<PipelineStep(<<"Research Planning">>, "complete"),
      PipelineStep(<<"Iterative Search">>, "complete"),
      PipelineStep(<<"Self-Critique", 1>>, "complete"),
      PipelineStep(<<"Synthesis + Memory">>, "complete")>>

LogOfSixSteps ==
    <<PipelineStep(<<"Research Planning">>, "complete"),
      PipelineStep(<<"Iterative Search">>, "complete"),
      PipelineStep(<<"Self-Critique", 1>>, "gaps_found"),
      PipelineStep(<<"Gap Re-Search">>, "complete"),
      PipelineStep(<<"Self-Critique", 2>>, "complete"),
      PipelineStep(<<"Synthesis + Memory">>, "complete")>>

\* C33: when research() returns, the step log is the 4 entries planning,
\* search, critique round 1, synthesis, or the 6 entries with the gap
\* re-search and critique round 2 before synthesis, none running or pending,
\* the last critique entry complete; and at every point of a run gaps_found
\* is the status of at most one entry, which is critique round 1.
C33_StepLogShape ==
    /\ pipeline.pc = "returned" => pipeline.log \in {LogOfFourSteps, LogOfSixSteps}
    /\ \A k \in DOMAIN pipeline.log :
          pipeline.log[k].status = "gaps_found" =>
              pipeline.log[k].name = <<"Self-Critique", 1>>

\* C33's case: a run returned with 6 log entries although its second
\* critique still asked for more search.
C33_Witness ==
    /\ pipeline.pc = "returned"
    /\ pipeline.log = LogOfSixSteps
    /\ pipeline.out.critique.needs_more_search

\* ------------------------------------------------------------------- C34
\* C34: the critique research() returns was computed on the outcome mapping
\* that synthesis receives: a gap re-search is always followed by a critique
\* round; the round that leads to synthesis computes its critique on the
\* mapping as it then is and leaves the mapping alone; and synthesis runs on,
\* and research() returns, that mapping and that critique.
C34_CritiqueOnSynthesizedMapping ==
    [][/\ pipeline.pc = "gaps" => pipeline'.pc = "critique"
       /\ (pipeline.pc = "critique" /\ pipeline'.pc = "synthesize") =>
             /\ pipeline'.search_results = pipeline.search_results
             /\ \E result \in PipeJudgeResults :
                   pipeline'.critique
                      = critique(pipeline.plan, pipeline.search_results, result)
       /\ (pipeline.pc = "synthesize" /\ pipeline'.pc = "returned") =>
             /\ pipeline'.out.search_results = pipeline.search_results
             /\ pipeline'.out.critique = pipeline.critique
             /\ pipeline'.out.all_papers = AllPapers(pipeline.search_results)
       /\ pipeline'.pc = "synthesize" => pipeline.pc = "critique"
       /\ pipeline'.pc = "returned" => pipeline.pc = "synthesize"]_vars

\* C34's case: a run returned after a gap re-search that added an entry to
\* the mapping; the critique it returns is the one of round 2.
C34_Witness ==
    /\ pipeline.pc = "returned"
    /\ CountCalls(pipeline.calls, "critique") = 2
    /\ Len(pipeline.out.search_results) > Len(pipeline.out.plan.sub_questions)
    /\ pipeline.out.critique = pipeline.critique

\* ------------------------------------------------------------------- C35
\* C35: when round 1 asks for more search with an empty gap list, the gap
\* re-search makes no call (no retrieval, no rewriter call) and leaves the
\* outcome mapping as it is, and round 2 follows: its critique call is made
\* on the mapping round 1 saw.
C35_EmptyGapReSearch ==
    [][/\ (pipeline.pc = "gaps" /\ pipeline.critique.gaps.items = <<>>) =>
          /\ pipeline'.pc = "critique"
          /\ pipeline'.round_num = 1
          /\ pipeline'.calls = pipeline.calls
          /\ pipeline'.search_results = pipeline.search_results
       /\ (pipeline.pc = "critique" /\ pipeline'.pc = "gaps") =>
             pipeline'.search_results = pipeline.search_results
       /\ (/\ pipeline.pc = "critique" /\ pipeline.round_num = 1
           /\ CountCalls(pipeline.calls, "search_for_gap") = 0
           /\ pipeline'.calls # pipeline.calls) =>
             /\ pipeline'.calls = Append(pipeline.calls, Call("critique", 1))
             /\ pipeline'.search_results = pipeline.search_results
             /\ pipeline'.pc = "synthesize" =>
                   \E result \in PipeJudgeResults :
                      pipeline'.critique
                         = critique(pipeline.plan, pipeline.search_results, result)]_vars

\* C35's case: a run whose gap re-search had nothing to search returned
\* after its second critique round.
C35_Witness ==
    /\ pipeline.pc = "returned"
    /\ CountCalls(pipeline.calls, "search_for_gap") = 0
    /\ CountCalls(pipeline.calls, "critique") = 2
    /\ Len(pipeline.log) = 6

\* ------------------------------------------------------------------- C36
\* A paper with a title and an abstract.
Complete(paper) == paper.title # "" /\ paper.abstract # 0

\* C36: every paper of the outcome of search_for_subquestion has a title and
\* an abstract, and at every point of the loop, whatever the tools answer in
\* the next iteration: the evidence list changes only if the batch holds at
\* least 2 papers, all of them complete, and passed verification, and then only
\* papers of that batch are appended; a batch of one paper, or with a paper
\* that lacks its title or abstract, leaves the list as it is.
C36_OnlyVerifiedEvidence ==
    /\ \A k \in DOMAIN search.st.results.papers :
          Complete(search.st.results.papers[k])
    /\ (search.pc = "loop" /\ search.st.running) =>
          \A resp \in SearchResponses :
             LET before == search.st.results.papers
                 st2    == search_iteration(search.st, search.max_iterations, resp)
                 after  == st2.results.papers
                 batch  == resp.papers
                 sound  == /\ Len(batch) >= 2
                           /\ \A k \in DOMAIN batch : Complete(batch[k])
             IN  /\ ~sound => after = before
                 /\ sound <=> st2.verification.valid
                 /\ Len(after) >= Len(before)
                 /\ \A k \in DOMAIN after :
                       IF k <= Len(before) THEN after[k] = before[k]
                       ELSE sound /\ after[k] \in Range(batch)

\* C36's case: a search returned evidence although one of its iterations got
\* a batch that failed verification.
C36_Witness ==
    /\ search.pc = "returned"
    /\ Len(search.st.results.papers) >= 2
    /\ search.st.results.iterations > 1
    /\ ~search.st.verification.valid
    /\ search.st.verification.issues # <<"No papers returned from search">>

\* ------------------------------------------------------------------- C37
\* C37: with at most 5 papers per retrieval call, the evidence list of a
\* search never holds more than 9 papers, for every iteration bound and every
\* answer of the tools: an iteration runs, and so a merge happens, only while
\* the list holds fewer than 5.
C37_AtMostNinePapers ==
    /\ Len(search.st.results.papers) <= 2 * MaxResults - 1
    /\ (search.pc = "loop" /\ search.st.running) =>
          Len(search.st.results.papers) < MaxResults

\* C37's case: a search returned 9 papers, 4 of one iteration and 5 of the
\* next.
C37_Witness ==
    /\ search.pc = "returned"
    /\ Len(search.st.results.papers) = 9
    /\ search.st.results.iterations = 2

\* ------------------------------------------------------------------- C38
\* The queries of the entries of the index file.
PersistedQueries ==
    {memory.memory_file.entries[k].value : k \in DOMAIN memory.memory_file.entries}

\* C38: when two instances on the same memory directory have each completed
\* one store call, in whatever order their steps were taken, the index file
\* holds the entries of both records; stated for the stores made in different
\* seconds, whose records have different ids.
C38_NoStoreLostFromIndex ==
    (/\ \A i \in Instances : memory.inst[i].pc = "stored"
     /\ memory.inst[1].entry_id # memory.inst[2].entry_id) =>
        /\ memory.memory_file.complete
        /\ \A i \in Instances : StoreQueryOf(i) \in PersistedQueries

\* ------------------------------------------------------------------- C39
\* C39: a quality report that does not pass has a feedback that names a
\* failing criterion: the feedback is the one "Quality looks good" message
\* only when the report passes.
C39_FailedReportNamesCriterion ==
    scorer.pc = "returned" =>
        (scorer.out.feedback = <<"Quality looks good">> => scorer.out.pass)

====
